---- MODULE Spec2Model ----
(***************************************************************************)
(* A model of the devmate backend (src-tauri/src/lib.rs): the format       *)
(* dispatcher and its components (JSON, XML, JWT, base64, the JSON         *)
(* summary), and the chunked content store behind its mutex.               *)
(*                                                                         *)
(* Text is a sequence of characters; a character is a one-character        *)
(* string.  Positions are 0-based as in the source, so the character at    *)
(* source index i is chars[i + 1].                                         *)
(***************************************************************************)
EXTENDS Integers, Sequences, FiniteSets, TLC

VARIABLES
  xmlText,            \* the argument of the format_xml call under way
  xs,                 \* the locals of format_xml: chars, i, depth, formatted, ...
  raw_content,        \* ContentStorage.raw_content
  formatted_content,  \* ContentStorage.formatted_content
  poisoned,           \* the poison flag of the Mutex around ContentStorage
  build,              \* how the crate was built: overflow checks, panic strategy
  proc,               \* "running", or "aborted" once a panic ended the process
  calls,              \* per caller: the command it has under way, if any,
                      \* and its position in it
  last,               \* the call that returned (or panicked) most recently
  written_stale,      \* history: formatted_content was written from input read
                      \* before the latest store_raw_content / clear_content
  fnCall              \* the format component called last: its name, its
                      \* argument and what it returned

xmlVars == <<xmlText, xs>>

fnVars == <<fnCall>>

storeVars ==
  <<raw_content, formatted_content, poisoned, build, proc, calls, last,
    written_stale>>

vars == <<xmlText, xs, raw_content, formatted_content, poisoned, build, proc,
          calls, last, written_stale, fnCall>>

(***************************************************************************)
(* Bounds of the model.                                                    *)
(***************************************************************************)
\* Longest enumerated XML input between its first '<' and its last '>'.
MaxXmlMid == 5
\* Longest enumerated XML input of arbitrary shape.
MaxXmlShort == 3
\* The number of values of the model's usize (2^64 in the program).
UsizeModulus == 32
\* Largest start / chunk_size enumerated besides the listed ones.
MaxStart == 1
MaxChunk == 1
\* Longest text encoded to base64 and decoded back, in characters.
MaxB64Len == 3
\* Deepest nesting of the JSON values whose statistics are computed.
MaxJsonDepth == 3
\* Largest chunk_size of a paginated retrieval besides the greatest usize.
MaxPageSize == 3
\* Longest run of one character in the strings whose preview is rendered.
MaxPreviewLen == 52

(***************************************************************************)
(* Constants of the program.                                               *)
(***************************************************************************)
\* Line 570: 100 * 1024 * 1024
StreamingThreshold == 104857600
\* Line 397: a string longer than this many bytes is cut.
PreviewLimit == 50
\* Line 398: the number of bytes kept of a string that is cut.
PreviewCut == 47

(***************************************************************************)
(* Characters and strings.                                                 *)
(***************************************************************************)
Min(S) == CHOOSE m \in S : \A n \in S : m <= n

Max(a, b) == IF a >= b THEN a ELSE b

\* The first 1-based position of s that holds c, or 0.
FirstIndexOf(s, c) ==
  LET S == {k \in 1..Len(s) : s[k] = c} IN IF S = {} THEN 0 ELSE Min(S)

\* char::is_whitespace, on the characters of the model.
IsWhitespace(c) == c \in {" ", "\n", "\t", "\r", "\f", "U+000B"}

RECURSIVE TrimStart(_)
TrimStart(s) ==
  IF s # <<>> /\ IsWhitespace(Head(s)) THEN TrimStart(Tail(s)) ELSE s

RECURSIVE TrimEnd(_)
TrimEnd(s) ==
  IF s # <<>> /\ IsWhitespace(s[Len(s)])
  THEN TrimEnd(SubSeq(s, 1, Len(s) - 1))
  ELSE s

\* str::trim
Trim(s) == TrimEnd(TrimStart(s))

\* chars[from..to) with the source's 0-based, end-exclusive indices.
Slice(chars, from, to) == SubSeq(chars, from + 1, to)

\* "  ".repeat(n)
RECURSIVE Indent(_)
Indent(n) == IF n <= 0 THEN <<>> ELSE <<" ", " ">> \o Indent(n - 1)

(***************************************************************************)
(* format_xml, as the state of its scan loop.                              *)
(***************************************************************************)
XmlErrEmpty == "Empty XML input"
XmlErrBounds == "Invalid XML: Must start with '<' and end with '>'"
XmlErrUnclosed == "Invalid XML: Unclosed tag found"
XmlErrUnbalanced == "Invalid XML: Unbalanced tags detected"

XmlIdle ==
  [status |-> "idle", chars |-> <<>>, i |-> 0, depth |-> 0,
   formatted |-> <<>>, last_was_text |-> FALSE, err |-> ""]

XmlFail(s, msg) == [s EXCEPT !.status = "err", !.err = msg]

\* Lines 85-100: trim, the two initial checks, and the loop's initial state.
XmlStart(text) ==
  LET trimmed == Trim(text)
      s0 == [XmlIdle EXCEPT !.chars = trimmed]
  IN  IF trimmed = <<>> THEN XmlFail(s0, XmlErrEmpty)
      ELSE IF trimmed[1] # "<" \/ trimmed[Len(trimmed)] # ">"
           THEN XmlFail(s0, XmlErrBounds)
           ELSE [s0 EXCEPT !.status = "scan"]

\* Lines 105-108: the first index >= i holding '>', or chars.len().
TagEnd(chars, i) ==
  LET S == {j \in i..(Len(chars) - 1) : chars[j + 1] = ">"}
  IN  IF S = {} THEN Len(chars) ELSE Min(S)

\* Lines 157-159: the first index >= i holding '<', or chars.len().
TextEnd(chars, i) ==
  LET S == {j \in i..(Len(chars) - 1) : chars[j + 1] = "<"}
  IN  IF S = {} THEN Len(chars) ELSE Min(S)

\* Line 116
IsClosingTag(tag_content) == tag_content # <<>> /\ Head(tag_content) = "/"

\* Line 117
IsSelfClosing(tag_content) ==
  tag_content # <<>> /\ tag_content[Len(tag_content)] = "/"

\* Lines 148-150: the complete tag, chars[i..=tag_end].
XmlEmitTag(chars, i, tag_end) == Slice(chars, i, tag_end + 1)

\* A closing tag that leaves the depth as it was.
XmlCloseDepthKept(depth) == depth

\* Line 121: the depth after a closing tag.
XmlCloseDepth(depth) == depth - 1

\* Lines 139-141: the depth after an opening or self-closing tag.
XmlOpenDepth(depth, is_self_closing) ==
  IF is_self_closing THEN depth ELSE depth + 1

\* A closing tag that always starts a new line, also after text.
XmlClosePrefixAlways(depth, last_was_text) ==
  <<"\n">> \o Indent(Max(depth, 0))

\* Lines 124-127: what precedes a closing tag (depth already decremented).
XmlClosePrefix(depth, last_was_text) ==
  IF ~last_was_text THEN <<"\n">> \o Indent(Max(depth, 0)) ELSE <<>>

\* Lines 132-136: what precedes an opening or self-closing tag.
XmlOpenPrefix(formatted, depth) ==
  (IF formatted # <<>> THEN <<"\n">> ELSE <<>>) \o Indent(Max(depth, 0))

\* Lines 103-152: the branch of the loop body taken at a '<'.
XmlTagBranch(s) ==
  LET tag_end == TagEnd(s.chars, s.i)
      tag_content == Slice(s.chars, s.i + 1, tag_end)
  IN  IF tag_end >= Len(s.chars) THEN XmlFail(s, XmlErrUnclosed)
      ELSE IF IsClosingTag(tag_content)
           THEN LET d == XmlCloseDepth(s.depth)
                IN  [s EXCEPT !.depth = d,
                              !.formatted = s.formatted
                                 \o XmlClosePrefix(d, s.last_was_text)
                                 \o XmlEmitTag(s.chars, s.i, tag_end),
                              !.last_was_text = FALSE,
                              !.i = tag_end + 1]
           ELSE [s EXCEPT !.depth = XmlOpenDepth(s.depth,
                                                 IsSelfClosing(tag_content)),
                          !.formatted = s.formatted
                             \o XmlOpenPrefix(s.formatted, s.depth)
                             \o XmlEmitTag(s.chars, s.i, tag_end),
                          !.last_was_text = FALSE,
                          !.i = tag_end + 1]

\* A text branch that skips the run without emitting it.
XmlTextBranchSilent(s) == [s EXCEPT !.i = TextEnd(s.chars, s.i)]

\* Lines 153-170: the branch taken at a non-whitespace character.
XmlTextBranch(s) ==
  LET text_end == TextEnd(s.chars, s.i)
      text_content == Trim(Slice(s.chars, s.i, text_end))
  IN  IF text_content # <<>>
      THEN [s EXCEPT !.formatted = s.formatted \o text_content,
                     !.last_was_text = TRUE,
                     !.i = text_end]
      ELSE [s EXCEPT !.i = text_end]

\* A whitespace branch that does not move on.
XmlSpaceBranchStuck(s) == s

\* Lines 171-174: whitespace between tags is skipped.
XmlSpaceBranch(s) == [s EXCEPT !.i = s.i + 1]

\* Lines 177-182: the final validation.
XmlFinish(s) ==
  IF s.depth # 0 THEN XmlFail(s, XmlErrUnbalanced)
  ELSE [s EXCEPT !.status = "ok"]

\* Lines 102-182: one iteration of the loop, or what follows the loop.
XmlStep(s) ==
  IF s.i >= Len(s.chars) THEN XmlFinish(s)
  ELSE IF s.chars[s.i + 1] = "<" THEN XmlTagBranch(s)
  ELSE IF ~IsWhitespace(s.chars[s.i + 1]) THEN XmlTextBranch(s)
  ELSE XmlSpaceBranch(s)

RECURSIVE XmlRun(_)
XmlRun(s) == IF s.status = "scan" THEN XmlRun(XmlStep(s)) ELSE s

\* format_xml as a function of its input: the final state of the scan.
format_xml(text) == XmlRun(XmlStart(text))

(***************************************************************************)
(* The inputs of the XML specification.                                    *)
(***************************************************************************)
XmlAlphabet == {"<", ">", "/", "a", " "}

Str(S, n) == UNION {[1..k -> S] : k \in 0..n}

\* <a><b>text</b></a>
XmlNested ==
  <<"<", "a", ">", "<", "b", ">", "t", "e", "x", "t",
    "<", "/", "b", ">", "<", "/", "a", ">">>

\* <a><b></a>
XmlUnbalanced == <<"<", "a", ">", "<", "b", ">", "<", "/", "a", ">">>

\* <a>x <b/></a>
XmlMixed ==
  <<"<", "a", ">", "x", " ", "<", "b", "/", ">", "<", "/", "a", ">">>

\* </a><a>, with blanks around it
XmlCloseFirst ==
  <<" ", "<", "/", "a", ">", "<", "a", ">", "\n">>

\* <a><b/><c>y</c></a>
XmlDeep ==
  <<"<", "a", ">", "<", "b", "/", ">", "<", "c", ">", "y",
    "<", "/", "c", ">", "<", "/", "a", ">">>

\* <a><!-- b> --></a>
XmlComment ==
  <<"<", "a", ">", "<", "!", "-", "-", " ", "b", ">", " ", "-", "-", ">",
    "<", "/", "a", ">">>

\* <?a b?> and, on the next line, <a/>
XmlProcInstr ==
  <<"<", "?", "a", " ", "b", "?", ">", "\n", "<", "a", "/", ">">>

\* <a><![CDATA[<]]></a>
XmlCData ==
  <<"<", "a", ">", "<", "!", "[", "C", "D", "A", "T", "A", "[", "<", "]",
    "]", ">", "<", "/", "a", ">">>

\* Constructs format_xml does not know: a comment, a processing
\* instruction, a CDATA section.
XmlUnsupported == {XmlComment, XmlProcInstr, XmlCData}

XmlExamples ==
  {XmlNested, XmlUnbalanced, XmlMixed, XmlCloseFirst, XmlDeep}
    \cup XmlUnsupported

XmlInputs ==
  Str(XmlAlphabet, MaxXmlShort)
    \cup {<<"<">> \o m \o <<">">> : m \in Str(XmlAlphabet, MaxXmlMid)}
    \cup XmlExamples

(***************************************************************************)
(* Option<String>: None is the empty tuple, Some(s) the tuple holding s.   *)
(***************************************************************************)
NoneV == <<>>
Some(s) == <<s>>
IsSome(o) == o # <<>>
Unwrap(o) == o[1]
\* Option::unwrap_or_default on an Option<String>
UnwrapOrDefault(o) == IF IsSome(o) THEN o[1] ELSE <<>>

(***************************************************************************)
(* Characters and their UTF-8 encoding.  A character is a string: an       *)
(* ASCII character is itself (a control character is named by its code     *)
(* point), and the characters outside ASCII that the program writes, or    *)
(* that the inputs hold, are named by their code points.                   *)
(***************************************************************************)
AsciiTable ==
  <<
    "U+0000", "U+0001", "U+0002", "U+0003", "U+0004", "U+0005", "U+0006", "U+0007",
    "U+0008", "\t", "\n", "U+000B", "\f", "\r", "U+000E", "U+000F",
    "U+0010", "U+0011", "U+0012", "U+0013", "U+0014", "U+0015", "U+0016", "U+0017",
    "U+0018", "U+0019", "U+001A", "U+001B", "U+001C", "U+001D", "U+001E", "U+001F",
    " ", "!", "\"", "#", "$", "%", "&", "'",
    "(", ")", "*", "+", ",", "-", ".", "/",
    "0", "1", "2", "3", "4", "5", "6", "7",
    "8", "9", ":", ";", "<", "=", ">", "?",
    "@", "A", "B", "C", "D", "E", "F", "G",
    "H", "I", "J", "K", "L", "M", "N", "O",
    "P", "Q", "R", "S", "T", "U", "V", "W",
    "X", "Y", "Z", "[", "\\", "]", "^", "_",
    "U+0060", "a", "b", "c", "d", "e", "f", "g",
    "h", "i", "j", "k", "l", "m", "n", "o",
    "p", "q", "r", "s", "t", "u", "v", "w",
    "x", "y", "z", "{", "|", "}", "~", "U+007F"
  >>

AsciiChars == {AsciiTable[k] : k \in 1..128}

IsAscii(c) == c \in AsciiChars

\* The code of an ASCII character.
AsciiCode(c) == (CHOOSE k \in 1..128 : AsciiTable[k] = c) - 1

EAcute == "U+00E9"
Folder == "U+1F4C1"
Clipboard == "U+1F4CB"
Memo == "U+1F4DD"
Numbers == "U+1F522"
CheckMark == "U+2705"
CrossMark == "U+274C"
BoxUpRight == "U+2514"
BoxHoriz == "U+2500"

\* The characters outside ASCII with their UTF-8 encodings.
WideChars ==
  <<
    <<EAcute, <<195, 169>>>>,
    <<Folder, <<240, 159, 147, 129>>>>,
    <<Clipboard, <<240, 159, 147, 139>>>>,
    <<Memo, <<240, 159, 147, 157>>>>,
    <<Numbers, <<240, 159, 148, 162>>>>,
    <<CheckMark, <<226, 156, 133>>>>,
    <<CrossMark, <<226, 157, 140>>>>,
    <<BoxUpRight, <<226, 148, 148>>>>,
    <<BoxHoriz, <<226, 148, 128>>>>
  >>

\* A character the model has no name for (it has no encoding here).
OtherChar == "U+FFFD"

\* char::encode_utf8
Utf8Bytes(c) ==
  IF IsAscii(c) THEN <<AsciiCode(c)>>
  ELSE WideChars[CHOOSE k \in 1..Len(WideChars) : WideChars[k][1] = c][2]

\* char::len_utf8
Utf8Len(c) == IF IsAscii(c) THEN 1 ELSE Len(Utf8Bytes(c))

\* str::as_bytes
RECURSIVE AsBytes(_)
AsBytes(s) == IF s = <<>> THEN <<>> ELSE Utf8Bytes(Head(s)) \o AsBytes(Tail(s))

\* The bytes the characters at the positions P of s take beyond one each.
RECURSIVE ExtraBytes(_, _)
ExtraBytes(s, P) ==
  IF P = {} THEN 0
  ELSE LET k == CHOOSE j \in P : TRUE
       IN  Utf8Len(s[k]) - 1 + ExtraBytes(s, P \ {k})

\* String::len: one byte for each character, and the further bytes of
\* those that are not ASCII.
ByteLen(s) == Len(s) + ExtraBytes(s, {k \in 1..Len(s) : ~IsAscii(s[k])})

IsCont(b) == b >= 128 /\ b <= 191

\* The length of the well-formed UTF-8 sequence at the head of bytes, or 0.
Utf8SeqLen(bytes) ==
  LET n == Len(bytes)
      b1 == bytes[1]
      c(k) == n >= k /\ IsCont(bytes[k])
  IN  IF b1 < 128 THEN 1
      ELSE IF b1 >= 194 /\ b1 <= 223 THEN (IF c(2) THEN 2 ELSE 0)
      ELSE IF b1 = 224
           THEN (IF c(2) /\ bytes[2] >= 160 /\ c(3) THEN 3 ELSE 0)
      ELSE IF b1 = 237
           THEN (IF c(2) /\ bytes[2] <= 159 /\ c(3) THEN 3 ELSE 0)
      ELSE IF b1 >= 225 /\ b1 <= 239 THEN (IF c(2) /\ c(3) THEN 3 ELSE 0)
      ELSE IF b1 = 240
           THEN (IF c(2) /\ bytes[2] >= 144 /\ c(3) /\ c(4) THEN 4 ELSE 0)
      ELSE IF b1 = 244
           THEN (IF c(2) /\ bytes[2] <= 143 /\ c(3) /\ c(4) THEN 4 ELSE 0)
      ELSE IF b1 >= 241 /\ b1 <= 243
           THEN (IF c(2) /\ c(3) /\ c(4) THEN 4 ELSE 0)
      ELSE 0

\* The character a well-formed sequence encodes.
CharOfBytes(seq) ==
  IF Len(seq) = 1 THEN AsciiTable[seq[1] + 1]
  ELSE IF \E k \in 1..Len(WideChars) : WideChars[k][2] = seq
       THEN WideChars[CHOOSE k \in 1..Len(WideChars) : WideChars[k][2] = seq][1]
       ELSE OtherChar

\* String::from_utf8: [ok |-> TRUE, s |-> the text] or [ok |-> FALSE, ...].
RECURSIVE FromUtf8(_)
FromUtf8(bytes) ==
  IF bytes = <<>> THEN [ok |-> TRUE, s |-> <<>>]
  ELSE LET n == Utf8SeqLen(bytes)
       IN  IF n = 0 THEN [ok |-> FALSE, s |-> <<>>]
           ELSE LET rest == FromUtf8(SubSeq(bytes, n + 1, Len(bytes)))
                IN  IF rest.ok
                    THEN [ok |-> TRUE,
                          s |-> <<CharOfBytes(SubSeq(bytes, 1, n))>> \o rest.s]
                    ELSE rest

\* The number of characters before byte offset idx, counting on from
\* character k at offset off; -1 when idx is not a character boundary.
RECURSIVE CharIndex(_, _, _, _)
CharIndex(s, idx, k, off) ==
  IF off = idx THEN k
  ELSE IF off > idx \/ k = Len(s) THEN -1
  ELSE CharIndex(s, idx, k + 1, off + Utf8Len(s[k + 1]))

\* str::is_char_boundary
IsCharBoundary(s, idx) == CharIndex(s, idx, 0, 0) # -1

\* &s[start..end] panics unless start <= end <= s.len() and both offsets are
\* character boundaries.
StrIndexPanics(s, start, end) ==
  \/ start > end
  \/ end > ByteLen(s)
  \/ ~IsCharBoundary(s, start)
  \/ ~IsCharBoundary(s, end)

\* &s[start..end] where it does not panic: the characters in those bytes.
StrIndex(s, start, end) ==
  SubSeq(s, CharIndex(s, start, 0, 0) + 1, CharIndex(s, end, 0, 0))

(***************************************************************************)
(* usize arithmetic.  The model's usize has UsizeModulus values; `+` on    *)
(* usize panics on overflow in a build with overflow checks and wraps in   *)
(* a build without.                                                        *)
(***************************************************************************)
UsizeMax == UsizeModulus - 1

AddOverflows(a, b) == a + b > UsizeMax

WrappingAdd(a, b) == (a + b) % UsizeModulus

UMin(a, b) == IF a <= b THEN a ELSE b

(***************************************************************************)
(* Results: Ok(value), Err(message), or a panic that unwinds the call.     *)
(***************************************************************************)
NoVal == [none |-> TRUE]

Ok(v) == [outcome |-> "ok", err |-> "", val |-> v]
Err(msg) == [outcome |-> "err", err |-> msg, val |-> NoVal]
Panic == [outcome |-> "panic", err |-> "", val |-> NoVal]

\* PoisonError's Display, what `state.lock().map_err(|e| e.to_string())` yields.
PoisonMsg == "poisoned lock: another task failed inside"

(***************************************************************************)
(* Base64, the STANDARD engine of the base64 crate: the standard alphabet, *)
(* '=' padding written by encode and required, in canonical form, by       *)
(* decode, which also rejects non-zero trailing bits.                      *)
(***************************************************************************)
B64Chars ==
  <<
    "A", "B", "C", "D", "E", "F", "G", "H", "I", "J", "K", "L", "M", "N", "O", "P",
    "Q", "R", "S", "T", "U", "V", "W", "X", "Y", "Z", "a", "b", "c", "d", "e", "f",
    "g", "h", "i", "j", "k", "l", "m", "n", "o", "p", "q", "r", "s", "t", "u", "v",
    "w", "x", "y", "z", "0", "1", "2", "3", "4", "5", "6", "7", "8", "9", "+", "/"
  >>

IsB64(c) == \E k \in 1..64 : B64Chars[k] = c

B64Value(c) == (CHOOSE k \in 1..64 : B64Chars[k] = c) - 1

\* The URL-safe alphabet: '-' and '_' for the last two symbols.
B64SymbolUrlSafe(v) ==
  IF v = 62 THEN "-" ELSE IF v = 63 THEN "_" ELSE B64Chars[v + 1]

\* The symbol of a 6-bit value in the STANDARD alphabet.
B64Symbol(v) == B64Chars[v + 1]

\* Engine::encode on bytes
RECURSIVE B64Encode(_)
B64Encode(bytes) ==
  LET n == Len(bytes)
  IN  IF n = 0 THEN <<>>
      ELSE IF n = 1
      THEN <<B64Symbol(bytes[1] \div 4), B64Symbol((bytes[1] % 4) * 16),
             "=", "=">>
      ELSE IF n = 2
      THEN <<B64Symbol(bytes[1] \div 4),
             B64Symbol((bytes[1] % 4) * 16 + (bytes[2] \div 16)),
             B64Symbol((bytes[2] % 16) * 4), "=">>
      ELSE <<B64Symbol(bytes[1] \div 4),
             B64Symbol((bytes[1] % 4) * 16 + (bytes[2] \div 16)),
             B64Symbol((bytes[2] % 16) * 4 + (bytes[3] \div 64)),
             B64Symbol(bytes[3] % 64)>>
             \o B64Encode(SubSeq(bytes, 4, n))

\* The bytes that a run of symbols (with no padding) carries.
RECURSIVE B64Bytes(_)
B64Bytes(syms) ==
  LET n == Len(syms)
      v(k) == B64Value(syms[k])
  IN  IF n < 2 THEN <<>>
      ELSE IF n = 2 THEN <<v(1) * 4 + (v(2) \div 16)>>
      ELSE IF n = 3
      THEN <<v(1) * 4 + (v(2) \div 16), (v(2) % 16) * 16 + (v(3) \div 4)>>
      ELSE <<v(1) * 4 + (v(2) \div 16), (v(2) % 16) * 16 + (v(3) \div 4),
             (v(3) % 4) * 64 + v(4)>>
             \o B64Bytes(SubSeq(syms, 5, n))

RECURSIVE TrimPad(_)
TrimPad(s) ==
  IF s # <<>> /\ s[Len(s)] = "=" THEN TrimPad(SubSeq(s, 1, Len(s) - 1)) ELSE s

\* Engine::decode on text: the bytes, or the kind of DecodeError.
B64Decode(text) ==
  LET syms == TrimPad(text)
      n == Len(syms)
      pad == Len(text) - n
      lastv == B64Value(syms[n])
  IN  IF \E k \in 1..n : ~IsB64(syms[k])
      THEN [ok |-> FALSE, bytes |-> <<>>, err |-> "Invalid symbol"]
      ELSE IF n % 4 = 1 \/ (n = 0 /\ pad > 0)
      THEN [ok |-> FALSE, bytes |-> <<>>, err |-> "Invalid input length"]
      ELSE IF (n % 4 = 2 /\ lastv % 16 # 0) \/ (n % 4 = 3 /\ lastv % 4 # 0)
      THEN [ok |-> FALSE, bytes |-> <<>>, err |-> "Invalid last symbol"]
      ELSE IF pad # (4 - (n % 4)) % 4
      THEN [ok |-> FALSE, bytes |-> <<>>, err |-> "Invalid padding"]
      ELSE [ok |-> TRUE, bytes |-> B64Bytes(syms), err |-> ""]

\* Lines 278-283
encode_base64(text) ==
  IF text = <<>> THEN Ok(<<>>) ELSE Ok(B64Encode(AsBytes(text)))

\* Lines 285-297
decode_base64(text) ==
  LET t == Trim(text)
      d == B64Decode(t)
      u == FromUtf8(d.bytes)
  IN  IF t = <<>> THEN Ok(<<>>)
      ELSE IF ~d.ok THEN Err("Invalid base64 encoding")
      ELSE IF ~u.ok THEN Err("Invalid UTF-8 in decoded data")
      ELSE Ok(u.s)

(***************************************************************************)
(* serde_json.  A JSON value is a record tagged by t: "null", "bool" (b),  *)
(* "num" (text, the number as written), "str" (s), "arr" (items) or "obj"  *)
(* (members, a sequence of <<key, value>> pairs in the map's order).       *)
(* Numbers are integers; the model's inputs hold no fraction, exponent or  *)
(* \u escape.                                                              *)
(***************************************************************************)
JNull == [t |-> "null"]
JBool(b) == [t |-> "bool", b |-> b]
JNum(text) == [t |-> "num", text |-> text]
JStr(str) == [t |-> "str", s |-> str]
JArr(items) == [t |-> "arr", items |-> items]
JObj(members) == [t |-> "obj", members |-> members]

Digits == {"0", "1", "2", "3", "4", "5", "6", "7", "8", "9"}

\* The whitespace serde_json skips.
IsJsonSpace(c) == c \in {" ", "\n", "\t", "\r"}

\* The order of String as a map key: byte by byte.
RECURSIVE BytesLess(_, _)
BytesLess(a, b) ==
  IF b = <<>> THEN FALSE
  ELSE IF a = <<>> THEN TRUE
  ELSE IF Head(a) # Head(b) THEN Head(a) < Head(b)
  ELSE BytesLess(Tail(a), Tail(b))

StrLess(a, b) == BytesLess(AsBytes(a), AsBytes(b))

\* serde_json's Map is a BTreeMap unless its preserve_order feature is
\* enabled; the crate is used with its default features.
PreserveOrder == FALSE

\* Map::insert.  A key already present keeps its place and takes the new
\* value; a new key goes in key order (the default BTreeMap) or at the end
\* (the preserve_order feature).
MapInsert(members, k, v) ==
  IF \E j \in 1..Len(members) : members[j][1] = k
  THEN [j \in 1..Len(members) |->
          IF members[j][1] = k THEN <<k, v>> ELSE members[j]]
  ELSE IF PreserveOrder THEN Append(members, <<k, v>>)
  ELSE LET before == Cardinality({j \in 1..Len(members) :
                                    StrLess(members[j][1], k)})
       IN  SubSeq(members, 1, before) \o <<<<k, v>>>>
             \o SubSeq(members, before + 1, Len(members))

PErr(kind, at) == [ok |-> FALSE, kind |-> kind, at |-> at]
POk(val, next) == [ok |-> TRUE, val |-> val, next |-> next]

\* The first index >= i that holds no JSON whitespace.
RECURSIVE SkipSpace(_, _)
SkipSpace(s, i) ==
  IF i < Len(s) /\ IsJsonSpace(s[i + 1]) THEN SkipSpace(s, i + 1) ELSE i

\* The character an escape letter stands for.
Unescape(c) ==
  CASE c = "n" -> "\n"
    [] c = "t" -> "\t"
    [] c = "r" -> "\r"
    [] c = "f" -> "\f"
    [] c = "b" -> "U+0008"
    [] OTHER -> c

\* The rest of a string whose opening quote has been read.
RECURSIVE ParseStringRest(_, _, _)
ParseStringRest(s, i, acc) ==
  IF i >= Len(s) THEN PErr("EOF while parsing a string", i)
  ELSE LET c == s[i + 1]
       IN  IF c = "\"" THEN POk(acc, i + 1)
           ELSE IF c = "\\"
           THEN IF i + 1 >= Len(s) THEN PErr("EOF while parsing a string", i + 1)
                ELSE IF s[i + 2] \in {"\"", "\\", "/", "b", "f", "n", "r", "t"}
                THEN ParseStringRest(s, i + 2, Append(acc, Unescape(s[i + 2])))
                ELSE PErr("invalid escape", i + 1)
           ELSE IF IsAscii(c) /\ AsciiCode(c) < 32
           THEN PErr("control character found while parsing a string", i)
           ELSE ParseStringRest(s, i + 1, Append(acc, c))

\* The first index >= i that holds no digit.
RECURSIVE SkipDigits(_, _)
SkipDigits(s, i) ==
  IF i < Len(s) /\ s[i + 1] \in Digits THEN SkipDigits(s, i + 1) ELSE i

\* A number that starts at i (a digit, or '-').
ParseNumber(s, i) ==
  LET d == IF s[i + 1] = "-" THEN i + 1 ELSE i
      e == SkipDigits(s, d)
  IN  IF d >= Len(s) THEN PErr("EOF while parsing a value", d)
      ELSE IF s[d + 1] \notin Digits THEN PErr("invalid number", d)
      ELSE IF s[d + 1] = "0" /\ e > d + 1 THEN PErr("invalid number", d + 1)
      ELSE POk(JNum(Slice(s, i, e)), e)

\* The literal whose first letter is at i.
ParseIdent(s, i, word, val) ==
  LET bad == {k \in 1..Len(word) : i + k > Len(s) \/ s[i + k] # word[k]}
  IN  IF bad = {} THEN POk(val, i + Len(word))
      ELSE IF i + Min(bad) > Len(s)
           THEN PErr("EOF while parsing a value", Len(s))
           ELSE PErr("expected ident", i + Min(bad) - 1)

RECURSIVE ParseValue(_, _), ParseItems(_, _, _), ParseMembers(_, _, _)

\* Deserializer::parse_value: the value that starts at or after i.
ParseValue(s, i0) ==
  LET i == SkipSpace(s, i0)
  IN  IF i >= Len(s) THEN PErr("EOF while parsing a value", i)
      ELSE LET c == s[i + 1]
           IN  CASE c = "n" -> ParseIdent(s, i, <<"n", "u", "l", "l">>, JNull)
                 [] c = "t" -> ParseIdent(s, i, <<"t", "r", "u", "e">>, JBool(TRUE))
                 [] c = "f" ->
                      ParseIdent(s, i, <<"f", "a", "l", "s", "e">>, JBool(FALSE))
                 [] c = "-" \/ c \in Digits -> ParseNumber(s, i)
                 [] c = "\"" ->
                      LET r == ParseStringRest(s, i + 1, <<>>)
                      IN  IF r.ok THEN POk(JStr(r.val), r.next) ELSE r
                 [] c = "[" ->
                      LET j == SkipSpace(s, i + 1)
                      IN  IF j < Len(s) /\ s[j + 1] = "]"
                          THEN POk(JArr(<<>>), j + 1)
                          ELSE ParseItems(s, j, <<>>)
                 [] c = "{" ->
                      LET j == SkipSpace(s, i + 1)
                      IN  IF j < Len(s) /\ s[j + 1] = "}"
                          THEN POk(JObj(<<>>), j + 1)
                          ELSE ParseMembers(s, j, <<>>)
                 [] OTHER -> PErr("expected value", i)

\* The items of an array from i on, after those in acc.
ParseItems(s, i, acc) ==
  IF i >= Len(s) THEN PErr("EOF while parsing a list", i)
  ELSE LET v == ParseValue(s, i)
       IN  IF ~v.ok THEN v
           ELSE LET j == SkipSpace(s, v.next)
                    items == Append(acc, v.val)
                IN  IF j >= Len(s) THEN PErr("EOF while parsing a list", j)
                    ELSE IF s[j + 1] = "]" THEN POk(JArr(items), j + 1)
                    ELSE IF s[j + 1] = ","
                    THEN LET k == SkipSpace(s, j + 1)
                         IN  IF k < Len(s) /\ s[k + 1] = "]"
                             THEN PErr("trailing comma", k)
                             ELSE ParseItems(s, k, items)
                    ELSE PErr("expected ',' or ']'", j)

\* The members of an object from i on, after those in acc.
ParseMembers(s, i, acc) ==
  IF i >= Len(s) THEN PErr("EOF while parsing an object", i)
  ELSE IF s[i + 1] # "\"" THEN PErr("key must be a string", i)
  ELSE LET key == ParseStringRest(s, i + 1, <<>>)
       IN  IF ~key.ok THEN key
           ELSE LET c == SkipSpace(s, key.next)
                IN  IF c >= Len(s) THEN PErr("EOF while parsing an object", c)
                    ELSE IF s[c + 1] # ":" THEN PErr("expected ':'", c)
                    ELSE LET v == ParseValue(s, c + 1)
                         IN  IF ~v.ok THEN v
                             ELSE LET j == SkipSpace(s, v.next)
                                      members == MapInsert(acc, key.val, v.val)
                                  IN  IF j >= Len(s)
                                      THEN PErr("EOF while parsing an object", j)
                                      ELSE IF s[j + 1] = "}"
                                      THEN POk(JObj(members), j + 1)
                                      ELSE IF s[j + 1] = ","
                                      THEN LET k == SkipSpace(s, j + 1)
                                           IN  IF k < Len(s) /\ s[k + 1] = "}"
                                               THEN PErr("trailing comma", k)
                                               ELSE ParseMembers(s, k, members)
                                      ELSE PErr("expected ',' or '}'", j)

\* serde_json::from_str: one value, then nothing but whitespace.
JsonFromStr(s) ==
  LET v == ParseValue(s, 0)
  IN  IF ~v.ok THEN v
      ELSE LET j == SkipSpace(s, v.next)
           IN  IF j < Len(s) THEN PErr("trailing characters", j) ELSE v

\* A number as Display writes it.
RECURSIVE NatChars(_)
NatChars(n) ==
  IF n < 10 THEN <<AsciiTable[49 + n]>>
  ELSE Append(NatChars(n \div 10), AsciiTable[49 + (n % 10)])

HexDigit(v) == IF v < 10 THEN AsciiTable[49 + v] ELSE AsciiTable[88 + v]

\* A character inside a string that serde_json writes.
EscapeChar(c) ==
  CASE c = "\"" -> <<"\\", "\"">>
    [] c = "\\" -> <<"\\", "\\">>
    [] c = "\n" -> <<"\\", "n">>
    [] c = "\t" -> <<"\\", "t">>
    [] c = "\r" -> <<"\\", "r">>
    [] c = "\f" -> <<"\\", "f">>
    [] c = "U+0008" -> <<"\\", "b">>
    [] OTHER ->
         IF IsAscii(c) /\ AsciiCode(c) < 32
         THEN <<"\\", "u", "0", "0", HexDigit(AsciiCode(c) \div 16),
                HexDigit(AsciiCode(c) % 16)>>
         ELSE <<c>>

RECURSIVE EscapeStr(_)
EscapeStr(str) ==
  IF str = <<>> THEN <<>> ELSE EscapeChar(Head(str)) \o EscapeStr(Tail(str))

Quoted(str) == <<"\"">> \o EscapeStr(str) \o <<"\"">>

\* A number as serde_json writes it: "-0" was read as the float -0.0.
NumberText(text) == IF text = <<"-", "0">> THEN <<"-", "0", ".", "0">> ELSE text

RECURSIVE JsonPretty(_, _), PrettyItems(_, _, _), PrettyMembers(_, _, _)

\* serde_json::to_string_pretty, for a value nested depth levels deep.
JsonPretty(v, depth) ==
  CASE v.t = "null" -> <<"n", "u", "l", "l">>
    [] v.t = "bool" -> IF v.b THEN <<"t", "r", "u", "e">>
                       ELSE <<"f", "a", "l", "s", "e">>
    [] v.t = "num" -> NumberText(v.text)
    [] v.t = "str" -> Quoted(v.s)
    [] v.t = "arr" ->
         IF v.items = <<>> THEN <<"[", "]">>
         ELSE <<"[">> \o PrettyItems(v.items, 1, depth + 1)
                \o <<"\n">> \o Indent(depth) \o <<"]">>
    [] v.t = "obj" ->
         IF v.members = <<>> THEN <<"{", "}">>
         ELSE <<"{">> \o PrettyMembers(v.members, 1, depth + 1)
                \o <<"\n">> \o Indent(depth) \o <<"}">>

PrettyItems(items, k, depth) ==
  IF k > Len(items) THEN <<>>
  ELSE (IF k > 1 THEN <<",">> ELSE <<>>) \o <<"\n">> \o Indent(depth)
         \o JsonPretty(items[k], depth) \o PrettyItems(items, k + 1, depth)

PrettyMembers(members, k, depth) ==
  IF k > Len(members) THEN <<>>
  ELSE (IF k > 1 THEN <<",">> ELSE <<>>) \o <<"\n">> \o Indent(depth)
         \o Quoted(members[k][1]) \o <<":", " ">>
         \o JsonPretty(members[k][2], depth)
         \o PrettyMembers(members, k + 1, depth)

\* Error::line and Error::column of a parse error found at character at
\* (the length of the text at its end): the parser has then read the bytes
\* up to the first byte of that character.  The line is 1 + the line feeds
\* read; the column is the number of bytes read after the last of them.
ErrorLine(s, at) ==
  1 + Cardinality({k \in 1..UMin(at + 1, Len(s)) : s[k] = "\n"})

ErrorColumn(s, at) ==
  LET upto == UMin(at + 1, Len(s))
      breaks == {k \in 1..upto : s[k] = "\n"}
      start == IF breaks = {} THEN 0
               ELSE CHOOSE k \in breaks : \A j \in breaks : j <= k
  IN  IF start = upto THEN 0
      ELSE ByteLen(SubSeq(s, start + 1, upto - 1))
             + (IF at < Len(s) THEN 1 ELSE Utf8Len(s[upto]))

\* str::lines: the text between line feeds, without a carriage return that
\* ends a line; no last line after a final line feed.
RECURSIVE Lines(_)
Lines(s) ==
  IF s = <<>> THEN <<>>
  ELSE LET p == FirstIndexOf(s, "\n")
           line == IF p = 0 THEN s ELSE SubSeq(s, 1, p - 1)
           bare == IF line # <<>> /\ line[Len(line)] = "\r"
                   THEN SubSeq(line, 1, Len(line) - 1) ELSE line
       IN  <<bare>> \o (IF p = 0 THEN <<>> ELSE Lines(SubSeq(s, p + 1, Len(s))))

\* Lines 66-70: column dashes and a caret.
RECURSIVE Marker(_)
Marker(column) == IF column = 0 THEN <<"^">> ELSE <<"-">> \o Marker(column - 1)

\* Lines 55-81.  The error keeps the parts of its message apart: the line,
\* the column as shown (column + 1), the source line, the marker, and the
\* parser's own message.
format_json(text) ==
  LET r == JsonFromStr(text)
      line == ErrorLine(text, r.at)
      column == ErrorColumn(text, r.at)
      lines == Lines(text)
      error_line == IF line - 1 < Len(lines) THEN lines[line] ELSE <<>>
  IN  IF r.ok THEN Ok(JsonPretty(r.val, 0))
      ELSE [outcome |-> "err", err |-> "Parse error",
            val |-> [line |-> line, column |-> column + 1,
                     error_line |-> error_line, marker |-> Marker(column),
                     e |-> r.kind]]

(***************************************************************************)
(* parse_jwt and decode_jwt_part.                                          *)
(***************************************************************************)
\* "Signature (base64): "
SigNote ==
  <<"S", "i", "g", "n", "a", "t", "u", "r", "e", " ", "(", "b",
    "a", "s", "e", "6", "4", ")", ":", " ">>
\* "header"
KeyHeader ==
  <<"h", "e", "a", "d", "e", "r">>
\* "payload"
KeyPayload ==
  <<"p", "a", "y", "l", "o", "a", "d">>
\* "signature"
KeySignature ==
  <<"s", "i", "g", "n", "a", "t", "u", "r", "e">>
\* "token_parts"
KeyTokenParts ==
  <<"t", "o", "k", "e", "n", "_", "p", "a", "r", "t", "s">>

\* str::split on a character: the parts between its occurrences.
RECURSIVE Split(_, _)
Split(s, c) ==
  LET p == FirstIndexOf(s, c)
  IN  IF p = 0 THEN <<s>>
      ELSE <<SubSeq(s, 1, p - 1)>> \o Split(SubSeq(s, p + 1, Len(s)), c)

\* Lines 251-254: '=' is pushed while the length in bytes is no multiple of 4.
PadToFour(encoded) ==
  LET n == ByteLen(encoded) % 4
  IN  encoded \o (IF n = 0 THEN <<>> ELSE [k \in 1..(4 - n) |-> "="])

\* Line 257: '-' becomes '+' and '_' becomes '/'.
ToStandardAlphabet(str) ==
  [k \in 1..Len(str) |-> IF str[k] = "-" THEN "+"
                         ELSE IF str[k] = "_" THEN "/" ELSE str[k]]

\* Lines 249-276: Ok(the JSON value), or Err with the step that failed.
decode_jwt_part(encoded) ==
  LET d == B64Decode(ToStandardAlphabet(PadToFour(encoded)))
      u == FromUtf8(d.bytes)
      j == JsonFromStr(u.s)
  IN  IF ~d.ok THEN Err("Invalid base64 encoding")
      ELSE IF ~u.ok THEN Err("Invalid UTF-8 in JWT part")
      ELSE IF ~j.ok THEN Err("Invalid JSON in JWT part")
      ELSE Ok(j.val)

\* An error of parse_jwt that wraps the error of a step.
JwtErr(msg, cause) == [outcome |-> "err", err |-> msg, val |-> [cause |-> cause]]

\* A check of the parts that lets longer tokens through.
JwtPartsOkLoose(parts) == Len(parts) >= 3

\* Line 195
JwtPartsOk(parts) == Len(parts) = 3

\* A signature member that tells nothing of the third part.
JwtSignatureNoteBare(signature) == JStr(SigNote)

\* Lines 218-221
JwtSignatureNote(signature) == JStr(SigNote \o signature)

\* Lines 185-247
parse_jwt(text) ==
  LET token == Trim(text)
      parts == Split(token, ".")
      header == decode_jwt_part(parts[1])
      payload == decode_jwt_part(parts[2])
      token_parts ==
        MapInsert(MapInsert(MapInsert(<<>>, KeyHeader, JStr(parts[1])),
                            KeyPayload, JStr(parts[2])),
                  KeySignature, JStr(parts[3]))
      result ==
        MapInsert(
          MapInsert(
            MapInsert(MapInsert(<<>>, KeyHeader, header.val),
                      KeyPayload, payload.val),
            KeySignature, JwtSignatureNote(parts[3])),
          KeyTokenParts, JObj(token_parts))
  IN  IF token = <<>> THEN Err("Empty JWT token")
      ELSE IF ~JwtPartsOk(parts)
      THEN Err("Invalid JWT format. Expected 3 parts separated by dots.")
      ELSE IF header.outcome # "ok"
      THEN JwtErr("Failed to decode JWT header", header.err)
      ELSE IF payload.outcome # "ok"
      THEN JwtErr("Failed to decode JWT payload", payload.err)
      ELSE Ok(JsonPretty(JObj(result), 0))

(***************************************************************************)
(* summarize_json: the structure summary and the statistics.               *)
(***************************************************************************)
\* "root"
LitRoot ==
  <<"r", "o", "o", "t">>
\* "item"
LitItem ==
  <<"i", "t", "e", "m">>
\* "<Folder> "
LitObjRootA ==
  <<Folder, " ">>
\* " (Object with "
LitObjRootB ==
  <<" ", "(", "O", "b", "j", "e", "c", "t", " ", "w", "i", "t",
    "h", " ">>
\* " keys)\n"
LitObjRootC ==
  <<" ", "k", "e", "y", "s", ")", "\n">>
\* ": Object ("
LitObjB ==
  <<":", " ", "O", "b", "j", "e", "c", "t", " ", "(">>
\* "<Clipboard> "
LitArrA ==
  <<Clipboard, " ">>
\* ": Array ("
LitArrB ==
  <<":", " ", "A", "r", "r", "a", "y", " ", "(">>
\* " items)\n"
LitArrC ==
  <<" ", "i", "t", "e", "m", "s", ")", "\n">>
\* "   <BoxUpRight><BoxHoriz> All items are: "
LitAllItems ==
  <<" ", " ", " ", BoxUpRight, BoxHoriz, " ", "A", "l", "l", " ",
    "i", "t", "e", "m", "s", " ", "a", "r", "e", ":", " ">>
\* "   <BoxUpRight><BoxHoriz> Mixed types: "
LitMixed ==
  <<" ", " ", " ", BoxUpRight, BoxHoriz, " ", "M", "i", "x", "e",
    "d", " ", "t", "y", "p", "e", "s", ":", " ">>
\* "   <BoxUpRight><BoxHoriz> First item structure:\n"
LitFirstItem ==
  <<" ", " ", " ", BoxUpRight, BoxHoriz, " ", "F", "i", "r", "s",
    "t", " ", "i", "t", "e", "m", " ", "s", "t", "r", "u", "c",
    "t", "u", "r", "e", ":", "\n">>
\* "<Memo> "
LitStrA ==
  <<Memo, " ">>
\* ": String ("
LitStrB ==
  <<":", " ", "S", "t", "r", "i", "n", "g", " ", "(">>
\* " chars) - ""
LitStrC ==
  <<" ", "c", "h", "a", "r", "s", ")", " ", "-", " ", "\"">>
\* ""\n"
LitStrD ==
  <<"\"", "\n">>
\* "..."
LitEllipsis ==
  <<".", ".", ".">>
\* "<Numbers> "
LitNumA ==
  <<Numbers, " ">>
\* ": Number - "
LitNumB ==
  <<":", " ", "N", "u", "m", "b", "e", "r", " ", "-", " ">>
\* "<CheckMark> "
LitBoolA ==
  <<CheckMark, " ">>
\* ": Boolean - "
LitBoolB ==
  <<":", " ", "B", "o", "o", "l", "e", "a", "n", " ", "-", " ">>
\* "<CrossMark> "
LitNullA ==
  <<CrossMark, " ">>
\* ": null\n"
LitNullB ==
  <<":", " ", "n", "u", "l", "l", "\n">>
\* ", "
LitCommaSpace ==
  <<",", " ">>
\* "JSON Structure Summary:\n======================\n\n"
LitSummaryHead ==
  <<"J", "S", "O", "N", " ", "S", "t", "r", "u", "c", "t", "u",
    "r", "e", " ", "S", "u", "m", "m", "a", "r", "y", ":", "\n",
    "=", "=", "=", "=", "=", "=", "=", "=", "=", "=", "=", "=",
    "=", "=", "=", "=", "=", "=", "=", "=", "=", "=", "\n", "\n">>
\* "\n\nStatistics:\n-----------\n"
LitStatsHead ==
  <<"\n", "\n", "S", "t", "a", "t", "i", "s", "t", "i", "c", "s",
    ":", "\n", "-", "-", "-", "-", "-", "-", "-", "-", "-", "-",
    "-", "\n">>
\* Lines 422-431
get_value_type(value) ==
  CASE value.t = "obj" -> <<"O", "b", "j", "e", "c", "t">>
    [] value.t = "arr" -> <<"A", "r", "r", "a", "y">>
    [] value.t = "str" -> <<"S", "t", "r", "i", "n", "g">>
    [] value.t = "num" -> <<"N", "u", "m", "b", "e", "r">>
    [] value.t = "bool" -> <<"B", "o", "o", "l", "e", "a", "n">>
    [] value.t = "null" -> <<"n", "u", "l", "l">>

\* A piece of output: the text, or a panic while it was built.
Piece(text) == [panic |-> FALSE, out |-> text]
PanicPiece == [panic |-> TRUE, out |-> <<>>]

\* What follows what, for every way each part can come out.
Cat(A, B) ==
  {IF a.panic \/ b.panic THEN PanicPiece ELSE Piece(a.out \o b.out) :
     a \in A, b \in B}

\* The orders in which a HashSet can yield its elements.
Orders(S) ==
  {p \in [1..Cardinality(S) -> S] :
     \A i, j \in 1..Cardinality(S) : i # j => p[i] # p[j]}

\* [String]::join(", ")
RECURSIVE Join(_, _)
Join(list, k) ==
  IF k > Len(list) THEN <<>>
  ELSE (IF k > 1 THEN LitCommaSpace ELSE <<>>) \o list[k] \o Join(list, k + 1)

\* The string preview that keeps the whole of a short string.
StringPreviewWhole(str) == Piece(str)

\* Lines 397-401: the preview of a string; the slice &s[..47] panics when
\* byte 47 is inside a character.
StringPreview(str) ==
  IF ByteLen(str) > PreviewLimit
  THEN IF StrIndexPanics(str, 0, PreviewCut) THEN PanicPiece
       ELSE Piece(StrIndex(str, 0, PreviewCut) \o LitEllipsis)
  ELSE Piece(str)

BoolText(b) == IF b THEN <<"t", "r", "u", "e">> ELSE <<"f", "a", "l", "s", "e">>

RECURSIVE generate_json_summary(_, _, _), SummaryOfMembers(_, _, _)

\* Lines 334-420: every output the call can have (the order of the types of
\* a mixed array is that of a HashSet, which is not fixed).
generate_json_summary(value, key, depth) ==
  LET indent == Indent(depth)
  IN  CASE value.t = "obj" ->
             Cat({Piece(IF depth = 0
                        THEN indent \o LitObjRootA \o key \o LitObjRootB
                               \o NatChars(Len(value.members)) \o LitObjRootC
                        ELSE indent \o LitObjRootA \o key \o LitObjB
                               \o NatChars(Len(value.members)) \o LitObjRootC)},
                 SummaryOfMembers(value.members, 1, depth + 1))
        [] value.t = "arr" ->
             LET arr == value.items
                 head == Piece(indent \o LitArrA \o key \o LitArrB
                                 \o NatChars(Len(arr)) \o LitArrC)
                 types == {get_value_type(arr[k]) : k \in 1..Len(arr)}
                 kinds ==
                   IF Cardinality(types) = 1
                   THEN {Piece(indent \o LitAllItems \o get_value_type(arr[1])
                                 \o <<"\n">>)}
                   ELSE {Piece(indent \o LitMixed \o Join(p, 1) \o <<"\n">>) :
                           p \in Orders(types)}
                 first ==
                   IF arr[1].t = "obj"
                   THEN Cat({Piece(indent \o LitFirstItem)},
                            generate_json_summary(arr[1], LitItem, depth + 2))
                   ELSE {Piece(<<>>)}
             IN  IF arr = <<>> THEN {head}
                 ELSE Cat(Cat({head}, kinds), first)
        [] value.t = "str" ->
             Cat(Cat({Piece(indent \o LitStrA \o key \o LitStrB
                              \o NatChars(ByteLen(value.s)) \o LitStrC)},
                     {StringPreview(value.s)}),
                 {Piece(LitStrD)})
        [] value.t = "num" ->
             {Piece(indent \o LitNumA \o key \o LitNumB
                      \o NumberText(value.text) \o <<"\n">>)}
        [] value.t = "bool" ->
             {Piece(indent \o LitBoolA \o key \o LitBoolB
                      \o BoolText(value.b) \o <<"\n">>)}
        [] value.t = "null" ->
             {Piece(indent \o LitNullA \o key \o LitNullB)}

\* Lines 356-358: the entries of an object from the k-th on.
SummaryOfMembers(members, k, depth) ==
  IF k > Len(members) THEN {Piece(<<>>)}
  ELSE Cat(generate_json_summary(members[k][2], members[k][1], depth),
           SummaryOfMembers(members, k + 1, depth))

NoStats ==
  [objects |-> 0, arrays |-> 0, primitives |-> 0, max_depth |-> 0,
   total_keys |-> 0]

RECURSIVE calculate_stats_recursive(_, _, _), StatsOfAll(_, _, _, _)

\* Lines 454-475
calculate_stats_recursive(value, stats, depth) ==
  LET seen == [stats EXCEPT !.max_depth = Max(stats.max_depth, depth)]
  IN  CASE value.t = "obj" ->
             StatsOfAll([k \in 1..Len(value.members) |-> value.members[k][2]], 1,
                        [seen EXCEPT !.objects = @ + 1,
                                     !.total_keys = @ + Len(value.members)],
                        depth + 1)
        [] value.t = "arr" ->
             StatsOfAll(value.items, 1, [seen EXCEPT !.arrays = @ + 1],
                        depth + 1)
        [] OTHER -> [seen EXCEPT !.primitives = @ + 1]

\* The loops at lines 461-463 and 467-469, from the k-th child on.
StatsOfAll(children, k, stats, depth) ==
  IF k > Len(children) THEN stats
  ELSE StatsOfAll(children, k + 1,
                  calculate_stats_recursive(children[k], stats, depth), depth)

\* A count that starts with the root at depth 1.
calculate_json_stats_from_one(value) ==
  calculate_stats_recursive(value, NoStats, 1)

\* Lines 441-452
calculate_json_stats(value) == calculate_stats_recursive(value, NoStats, 0)

\* Lines 321-329
StatsBlock(stats) ==
  LitStatsHead
    \* "Total objects: "
    \o <<"T", "o", "t", "a", "l", " ", "o", "b", "j", "e", "c", "t", "s",
         ":", " ">>
    \o NatChars(stats.objects) \o <<"\n">>
    \* "Total arrays: "
    \o <<"T", "o", "t", "a", "l", " ", "a", "r", "r", "a", "y", "s", ":", " ">>
    \o NatChars(stats.arrays) \o <<"\n">>
    \* "Total primitive values: "
    \o <<"T", "o", "t", "a", "l", " ", "p", "r", "i", "m", "i", "t", "i",
         "v", "e", " ", "v", "a", "l", "u", "e", "s", ":", " ">>
    \o NatChars(stats.primitives) \o <<"\n">>
    \* "Maximum depth: "
    \o <<"M", "a", "x", "i", "m", "u", "m", " ", "d", "e", "p", "t", "h",
         ":", " ">>
    \o NatChars(stats.max_depth) \o <<"\n">>
    \* "Total keys: "
    \o <<"T", "o", "t", "a", "l", " ", "k", "e", "y", "s", ":", " ">>
    \o NatChars(stats.total_keys) \o <<"\n">>

\* Lines 299-332: every outcome the call can have.
summarize_json(text) ==
  LET trimmed == Trim(text)
      parsed == JsonFromStr(trimmed)
  IN  IF trimmed = <<>> THEN {Err("Empty JSON input")}
      ELSE IF ~parsed.ok
      THEN {[outcome |-> "err", err |-> "Invalid JSON",
             val |-> [cause |-> parsed.kind]]}
      ELSE {IF p.panic THEN Panic
            ELSE Ok(LitSummaryHead \o p.out
                      \o StatsBlock(calculate_json_stats(parsed.val))) :
              p \in generate_json_summary(parsed.val, LitRoot, 0)}

(***************************************************************************)
(* The format components behind format_text: the outcomes a call can have. *)
(***************************************************************************)
FormatXml(text) ==
  LET s == format_xml(text)
  IN  IF s.status = "ok" THEN Ok(s.formatted) ELSE Err(s.err)

\* Lines 23-31: the match on format_type.
Dispatch(format_type, content) ==
  CASE format_type = "json" -> {format_json(content)}
    [] format_type = "xml" -> {FormatXml(content)}
    [] format_type = "jwt" -> {parse_jwt(content)}
    [] format_type = "json-summary" -> summarize_json(content)
    [] format_type = "encode" -> {encode_base64(content)}
    [] format_type = "decode" -> {decode_base64(content)}
    [] OTHER -> {Err("Unknown format type")}

\* A format_text that stores whatever succeeds, codec results included.
IsStoredAlways(format_type) == TRUE

\* Line 35: a successful result is stored unless the format is a codec.
IsStored(format_type) == format_type # "encode" /\ format_type # "decode"

(***************************************************************************)
(* The inputs of the store specification.                                  *)
(***************************************************************************)
\* <a/>
TextXml == <<"<", "a", "/", ">">>
\* <e-acute/>
TextXmlAccent == <<"<", EAcute, "/", ">">>
\* 0123456789
TextTen == <<"0", "1", "2", "3", "4", "5", "6", "7", "8", "9">>

\* {}
TextJson == <<"{", "}">>
\* e30.e30.s
TextJwt == <<"e", "3", "0", ".", "e", "3", "0", ".", "s">>

\* What callers pass to format_text, and what they store or load as raw.
FormatTexts == {<<>>, TextXmlAccent, TextJson, TextJwt}

StoreTexts == {<<>>, TextXmlAccent, TextJson, TextTen}

FormatTypes ==
  {"json", "xml", "jwt", "json-summary", "encode", "decode", "yaml"}

ContentTypes == {"raw", "formatted", "other"}

ChunkStarts == (0..MaxStart) \cup {8, 10, UsizeMax}

ChunkSizes == (0..MaxChunk) \cup {5, UsizeMax}

Files ==
  {[opens |-> FALSE, size |-> 0, utf8 |-> TRUE, content |-> <<>>],
   [opens |-> TRUE, size |-> StreamingThreshold, utf8 |-> TRUE,
    content |-> TextXml],
   [opens |-> TRUE, size |-> StreamingThreshold + 1, utf8 |-> TRUE,
    content |-> TextXml],
   [opens |-> TRUE, size |-> StreamingThreshold + 1, utf8 |-> FALSE,
    content |-> <<>>]}

Builds ==
  [overflow_checks : BOOLEAN, panic_unwind : BOOLEAN]

\* <b/>
TextXmlB == <<"<", "b", "/", ">">>

\* What the two callers of the race specification pass.
RaceStoreTexts == {TextXml, TextXmlB}
RaceFormatTexts == {<<>>, TextXml}
RaceFormatTypes == {"xml", "json", "encode"}

\* The texts format_text can come to format in the store and the race
\* specifications, and the outcomes of the match for each, computed once.
FormatContents ==
  StoreTexts \cup FormatTexts \cup {file.content : file \in Files} \cup RaceStoreTexts
    \cup RaceFormatTexts

DispatchResults ==
  [format_type \in FormatTypes, content \in FormatContents |->
     Dispatch(format_type, content)]

\* Lines 23-31 on one of those texts.
Dispatched(format_type, content) == DispatchResults[format_type, content]

(***************************************************************************)
(* The content store's commands.  Each holds the store's lock from its     *)
(* first line to its return, so each is one step.                          *)
(***************************************************************************)
\* Lines 501-534, as a function of the store it finds.
get_content_chunk(content_type, start, chunk_size) ==
  IF poisoned THEN Err(PoisonMsg)
  ELSE IF content_type \notin {"raw", "formatted"} THEN Err("Invalid content type")
  ELSE LET content == IF content_type = "raw" THEN raw_content
                      ELSE formatted_content
       IN  IF ~IsSome(content) THEN Err("No content stored")
           ELSE LET content_str == Unwrap(content)
                    total_length == ByteLen(content_str)
                    end == UMin(WrappingAdd(start, chunk_size), total_length)
                IN  IF AddOverflows(start, chunk_size) /\ build.overflow_checks
                    THEN Panic
                    ELSE IF start >= total_length
                    THEN Ok([chunk |-> <<>>, has_more |-> FALSE,
                             total_length |-> total_length,
                             next_start |-> total_length])
                    ELSE IF StrIndexPanics(content_str, start, end) THEN Panic
                    ELSE Ok([chunk |-> StrIndex(content_str, start, end),
                             has_more |-> end < total_length,
                             total_length |-> total_length,
                             next_start |-> end])

\* Lines 539-549
get_content_info ==
  IF poisoned THEN Err(PoisonMsg)
  ELSE Ok([has_raw |-> IsSome(raw_content),
           has_formatted |-> IsSome(formatted_content),
           raw_length |-> IF IsSome(raw_content)
                          THEN ByteLen(Unwrap(raw_content)) ELSE 0,
           formatted_length |-> IF IsSome(formatted_content)
                                THEN ByteLen(Unwrap(formatted_content)) ELSE 0])

NoArgs == [none |-> TRUE]

\* No format component has been called.
FnIdle == [fn |-> "none", arg |-> <<>>, res |-> NoVal, origin |-> <<>>]

Returned(op, args, res) ==
  [op |-> op, args |-> args, outcome |-> res.outcome, err |-> res.err,
   val |-> res.val]

IdleCall ==
  [pc |-> "idle", text |-> <<>>, format_type |-> "", content |-> <<>>,
   out |-> <<>>, stale |-> FALSE]

\* The threads that issue commands.
Callers == {1, 2}

Running == proc = "running"

\* A caller that has no format_text call under way can issue a command.
Idle(t) == calls[t].pc = "idle"

\* The calls under way read their input before the store changed.
MarkStale == [t \in Callers |-> IF calls[t].pc = "idle" THEN calls[t]
                                 ELSE [calls[t] EXCEPT !.stale = TRUE]]

\* A panic while the guard is alive: unwinding drops the guard and poisons
\* the mutex; with panic = "abort" the process ends instead.
PanicEffect ==
  IF build.panic_unwind
  THEN poisoned' = TRUE /\ UNCHANGED proc
  ELSE proc' = "aborted" /\ UNCHANGED poisoned

\* The storage the commands lock.
Storage ==
  [raw_content |-> raw_content, formatted_content |-> formatted_content]

\* A store_raw_content that leaves the formatted content in place.
store_raw_content_keeps(storage, content) ==
  [raw_content |-> Some(content),
   formatted_content |-> storage.formatted_content]

\* Lines 489-490
store_raw_content(storage, content) ==
  [raw_content |-> Some(content), formatted_content |-> NoneV]

\* Lines 555-556
clear_content(storage) ==
  [raw_content |-> NoneV, formatted_content |-> NoneV]

\* A panic while no guard is alive: the lock is untouched; with
\* panic = "abort" the process ends.
PanicNoGuard ==
  IF build.panic_unwind THEN UNCHANGED proc ELSE proc' = "aborted"

\* Lines 487-492
StoreRawContent(t, content) ==
  /\ Running /\ Idle(t)
  /\ IF poisoned
     THEN /\ last' = Returned("store_raw_content", [content |-> content],
                              Err(PoisonMsg))
          /\ UNCHANGED <<raw_content, formatted_content, calls, written_stale>>
     ELSE /\ raw_content' = store_raw_content(Storage, content).raw_content
          /\ formatted_content' =
               store_raw_content(Storage, content).formatted_content
          /\ written_stale' = FALSE
          /\ calls' = MarkStale
          /\ last' = Returned("store_raw_content", [content |-> content],
                              Ok(NoVal))
  /\ UNCHANGED <<poisoned, build, proc, xmlVars, fnVars>>

\* Lines 495-535
GetContentChunk(t, content_type, start, chunk_size) ==
  /\ Running /\ Idle(t)
  /\ LET res == get_content_chunk(content_type, start, chunk_size)
     IN  /\ last' = Returned("get_content_chunk",
                             [content_type |-> content_type, start |-> start,
                              chunk_size |-> chunk_size], res)
         /\ IF res.outcome = "panic" THEN PanicEffect
            ELSE UNCHANGED <<poisoned, proc>>
  /\ UNCHANGED <<raw_content, formatted_content, build, calls, written_stale,
                 xmlVars, fnVars>>

\* Lines 538-550
GetContentInfo(t) ==
  /\ Running /\ Idle(t)
  /\ last' = Returned("get_content_info", NoArgs, get_content_info)
  /\ UNCHANGED <<raw_content, formatted_content, poisoned, build, proc, calls,
                 written_stale, xmlVars, fnVars>>

\* Lines 553-558
ClearContent(t) ==
  /\ Running /\ Idle(t)
  /\ IF poisoned
     THEN /\ last' = Returned("clear_content", NoArgs, Err(PoisonMsg))
          /\ UNCHANGED <<raw_content, formatted_content, calls, written_stale>>
     ELSE /\ raw_content' = clear_content(Storage).raw_content
          /\ formatted_content' = clear_content(Storage).formatted_content
          /\ written_stale' = FALSE
          /\ calls' = MarkStale
          /\ last' = Returned("clear_content", NoArgs, Ok(NoVal))
  /\ UNCHANGED <<poisoned, build, proc, xmlVars, fnVars>>

\* Lines 561-598.  A file is what File::open, metadata and read_to_string
\* find: whether it opens, its size, whether it reads as UTF-8, its text.
ReadLargeFileStreaming(t, file) ==
  /\ Running /\ Idle(t)
  /\ LET args == [file_size |-> file.size, opens |-> file.opens]
         streamed == [success |-> TRUE, file_size |-> file.size,
                      use_streaming |-> TRUE]
         skipped == [success |-> TRUE, file_size |-> file.size,
                     use_streaming |-> FALSE]
         stores == file.opens /\ file.size > StreamingThreshold
                     /\ file.utf8 /\ ~poisoned
     IN  /\ last' = Returned("read_large_file_streaming", args,
                      IF ~file.opens THEN Err("Failed to open file")
                      ELSE IF file.size > StreamingThreshold
                      THEN IF ~file.utf8 THEN Err("Failed to read file")
                           ELSE IF poisoned THEN Err(PoisonMsg)
                           ELSE Ok(streamed)
                      ELSE Ok(skipped))
         /\ IF stores
            THEN /\ raw_content' = Some(file.content)
                 /\ formatted_content' = NoneV   \* lines 580-581
                 /\ written_stale' = FALSE
                 /\ calls' = MarkStale
            ELSE UNCHANGED <<raw_content, formatted_content, calls,
                             written_stale>>
  /\ UNCHANGED <<poisoned, build, proc, xmlVars, fnVars>>

(***************************************************************************)
(* format_text takes the lock twice: to read raw_content when its text is  *)
(* empty (lines 16-21), and to write formatted_content (lines 34-39).      *)
(* Between the two it holds no lock, so it is two steps.                   *)
(***************************************************************************)
\* Lines 16-21: the text to format, given what the store holds.
ContentToFormat(text) ==
  IF text = <<>> THEN UnwrapOrDefault(raw_content) ELSE text

FormatArgs(text, format_type) == [text |-> text, format_type |-> format_type]

\* Lines 14-31, and the return at line 41 when nothing is to be stored.
FormatTextBegin(t, text, format_type) ==
  /\ Running
  /\ calls[t].pc = "idle"
  /\ IF text = <<>> /\ poisoned
     THEN /\ last' = Returned("format_text", FormatArgs(text, format_type),
                              Err(PoisonMsg))
          /\ UNCHANGED calls
          /\ UNCHANGED proc
     ELSE LET content_to_format == ContentToFormat(text)
          IN  \E result \in Dispatched(format_type, content_to_format) :
                IF result.outcome = "ok" /\ IsStored(format_type)
                THEN /\ calls' = [calls EXCEPT ![t] =
                                    [pc |-> "store", text |-> text,
                                     format_type |-> format_type,
                                     content |-> content_to_format,
                                     out |-> result.val, stale |-> FALSE]]
                     /\ UNCHANGED <<last, proc>>
                ELSE /\ last' = Returned("format_text",
                                         FormatArgs(text, format_type), result)
                     /\ UNCHANGED calls
                     /\ IF result.outcome = "panic" THEN PanicNoGuard
                        ELSE UNCHANGED proc
  /\ UNCHANGED <<raw_content, formatted_content, poisoned, build,
                 written_stale, xmlVars, fnVars>>

\* Lines 34-41: the successful result is stored and returned.
FormatTextStore(t) ==
  /\ Running
  /\ calls[t].pc = "store"
  /\ calls' = [calls EXCEPT ![t] = IdleCall]
  /\ IF poisoned
     THEN /\ last' = Returned("format_text",
                              FormatArgs(calls[t].text, calls[t].format_type),
                              Err(PoisonMsg))
          /\ UNCHANGED <<formatted_content, written_stale>>
     ELSE /\ formatted_content' = Some(calls[t].out)
          /\ written_stale' = calls[t].stale
          /\ last' = Returned("format_text",
                              FormatArgs(calls[t].text, calls[t].format_type),
                              Ok(calls[t].out))
  /\ UNCHANGED <<raw_content, poisoned, build, proc, xmlVars, fnVars>>

(***************************************************************************)
(* The store specification: AppState::default() (line 606), then any       *)
(* interleaving of the commands issued by the callers.                     *)
(***************************************************************************)
NoCall ==
  [op |-> "none", args |-> NoArgs, outcome |-> "ok", err |-> "", val |-> NoVal]

StoreStart ==
  /\ raw_content = NoneV
  /\ formatted_content = NoneV
  /\ poisoned = FALSE
  /\ proc = "running"
  /\ calls = [t \in Callers |-> IdleCall]
  /\ last = NoCall
  /\ written_stale = FALSE

Init ==
  /\ StoreStart
  /\ build \in Builds
  /\ xmlText = <<>> /\ xs = XmlIdle
  /\ fnCall = FnIdle

\* One caller: the commands run one after the other.
Next ==
  \/ \E content \in StoreTexts : StoreRawContent(1, content)
  \/ \E ct \in ContentTypes, start \in ChunkStarts, size \in ChunkSizes :
       GetContentChunk(1, ct, start, size)
  \/ GetContentInfo(1)
  \/ ClearContent(1)
  \/ \E file \in Files : ReadLargeFileStreaming(1, file)
  \/ \E text \in FormatTexts, ft \in FormatTypes : FormatTextBegin(1, text, ft)
  \/ FormatTextStore(1)

Spec == Init /\ [][Next]_vars

(***************************************************************************)
(* The race specification: two callers issue format_text, store_raw_content *)
(* and clear_content at once.  A command that holds the lock throughout is *)
(* one step; format_text is its two steps, and the other caller's steps    *)
(* can fall between them.                                                  *)
(***************************************************************************)
RaceInit ==
  /\ StoreStart
  /\ build = [overflow_checks |-> TRUE, panic_unwind |-> TRUE]
  /\ xmlText = <<>> /\ xs = XmlIdle
  /\ fnCall = FnIdle

RaceNext ==
  \E t \in Callers :
    \/ \E content \in RaceStoreTexts : StoreRawContent(t, content)
    \/ ClearContent(t)
    \/ GetContentInfo(t)
    \/ \E text \in RaceFormatTexts, ft \in RaceFormatTypes :
         FormatTextBegin(t, text, ft)
    \/ FormatTextStore(t)

SpecRace == RaceInit /\ [][RaceNext]_vars

(***************************************************************************)
(* The XML specification: format_xml is called on an input and its loop    *)
(* runs one iteration per step.                                            *)
(***************************************************************************)
XmlInit ==
  /\ xmlText = <<>> /\ xs = XmlIdle
  /\ fnCall = FnIdle
  /\ StoreStart
  /\ build = [overflow_checks |-> TRUE, panic_unwind |-> TRUE]

XmlCall ==
  /\ xs.status = "idle"
  /\ \E text \in XmlInputs :
       /\ xmlText' = text
       /\ xs' = XmlStart(text)
  /\ UNCHANGED <<storeVars, fnVars>>

XmlTagStep ==
  /\ xs.status = "scan" /\ xs.i < Len(xs.chars)
  /\ xs.chars[xs.i + 1] = "<"
  /\ xs' = XmlTagBranch(xs)
  /\ UNCHANGED <<xmlText, storeVars, fnVars>>

XmlTextStep ==
  /\ xs.status = "scan" /\ xs.i < Len(xs.chars)
  /\ xs.chars[xs.i + 1] # "<" /\ ~IsWhitespace(xs.chars[xs.i + 1])
  /\ xs' = XmlTextBranch(xs)
  /\ UNCHANGED <<xmlText, storeVars, fnVars>>

XmlSpaceStep ==
  /\ xs.status = "scan" /\ xs.i < Len(xs.chars)
  /\ xs.chars[xs.i + 1] # "<" /\ IsWhitespace(xs.chars[xs.i + 1])
  /\ xs' = XmlSpaceBranch(xs)
  /\ UNCHANGED <<xmlText, storeVars, fnVars>>

XmlFinishStep ==
  /\ xs.status = "scan" /\ xs.i >= Len(xs.chars)
  /\ xs' = XmlFinish(xs)
  /\ UNCHANGED <<xmlText, storeVars, fnVars>>

\* The call has returned; the next call starts from a fresh scan state.
XmlReturn ==
  /\ xs.status \in {"ok", "err"}
  /\ xs' = XmlIdle
  /\ xmlText' = <<>>
  /\ UNCHANGED <<storeVars, fnVars>>

XmlNext ==
  \/ XmlCall
  \/ XmlReturn
  \/ XmlTagStep
  \/ XmlTextStep
  \/ XmlSpaceStep
  \/ XmlFinishStep

SpecXml == XmlInit /\ [][XmlNext]_vars

\* A call under way runs on: the loop and the return after it are one thread
\* of straight-line code.
XmlRuns == XmlTagStep \/ XmlTextStep \/ XmlSpaceStep \/ XmlFinishStep

SpecXmlFair == XmlInit /\ [][XmlNext]_vars /\ WF_vars(XmlRuns)

(***************************************************************************)
(* The lock specification: the mutex of AppState is explicit.  A command   *)
(* takes the lock in one step, makes each of its reads and writes of the   *)
(* store in a step of its own, and gives the lock back when its guard goes *)
(* out of scope.  calls[t].pc is the caller's position; the caller whose   *)
(* position is inside a guard's scope holds the lock.                      *)
(***************************************************************************)
HoldingPcs ==
  {"store_locked", "store_wrote_raw", "clear_locked", "clear_wrote_raw",
   "info_locked", "info_read_raw", "chunk_locked"}

Holding(t) == calls[t].pc \in HoldingPcs

\* A lock that any caller can take while another holds it.
LockFreeAlways == TRUE

\* state.lock() returns once no guard is alive (lines 16, 34, 488, 501, 539,
\* 554).
LockFree == \A u \in Callers : ~Holding(u)

At(t, pc, content, out) ==
  [calls EXCEPT ![t] = [IdleCall EXCEPT !.pc = pc, !.content = content,
                                        !.out = out]]

\* Line 488: a poisoned lock makes the command return its error at once.
LockOrFail(t, op, args, pc, content) ==
  /\ Running /\ Idle(t) /\ LockFree
  /\ IF poisoned
     THEN /\ last' = Returned(op, args, Err(PoisonMsg))
          /\ UNCHANGED calls
     ELSE /\ calls' = At(t, pc, content, <<>>)
          /\ UNCHANGED last
  /\ UNCHANGED <<raw_content, formatted_content, poisoned, build, proc,
                 written_stale, xmlVars, fnVars>>

\* Line 488
StoreLock(t, content) ==
  LockOrFail(t, "store_raw_content", [content |-> content], "store_locked",
             content)

\* Line 489
StoreWriteRaw(t) ==
  /\ Running /\ calls[t].pc = "store_locked"
  /\ raw_content' = store_raw_content(Storage, calls[t].content).raw_content
  /\ calls' = At(t, "store_wrote_raw", calls[t].content, <<>>)
  /\ UNCHANGED <<formatted_content, last, poisoned, build, proc,
                 written_stale, xmlVars, fnVars>>

\* Lines 490-492
StoreWriteFormatted(t) ==
  /\ Running /\ calls[t].pc = "store_wrote_raw"
  /\ formatted_content' =
       store_raw_content(Storage, calls[t].content).formatted_content
  /\ calls' = At(t, "idle", <<>>, <<>>)
  /\ last' = Returned("store_raw_content", [content |-> calls[t].content],
                      Ok(NoVal))
  /\ UNCHANGED <<raw_content, poisoned, build, proc, written_stale, xmlVars, fnVars>>

\* Line 554
ClearLock(t) == LockOrFail(t, "clear_content", NoArgs, "clear_locked", <<>>)

\* Line 555
ClearWriteRaw(t) ==
  /\ Running /\ calls[t].pc = "clear_locked"
  /\ raw_content' = clear_content(Storage).raw_content
  /\ calls' = At(t, "clear_wrote_raw", <<>>, <<>>)
  /\ UNCHANGED <<formatted_content, last, poisoned, build, proc,
                 written_stale, xmlVars, fnVars>>

\* Lines 556-558
ClearWriteFormatted(t) ==
  /\ Running /\ calls[t].pc = "clear_wrote_raw"
  /\ formatted_content' = clear_content(Storage).formatted_content
  /\ calls' = At(t, "idle", <<>>, <<>>)
  /\ last' = Returned("clear_content", NoArgs, Ok(NoVal))
  /\ UNCHANGED <<raw_content, poisoned, build, proc, written_stale, xmlVars, fnVars>>

\* Line 539
InfoLock(t) == LockOrFail(t, "get_content_info", NoArgs, "info_locked", <<>>)

\* Lines 540 and 542-544: what the command reads of raw_content.
InfoReadRaw(t) ==
  /\ Running /\ calls[t].pc = "info_locked"
  /\ calls' = At(t, "info_read_raw", <<>>,
                 <<get_content_info.val.has_raw,
                   get_content_info.val.raw_length>>)
  /\ UNCHANGED <<raw_content, formatted_content, last, poisoned, build, proc,
                 written_stale, xmlVars, fnVars>>

\* Lines 541 and 545-549: what it reads of formatted_content, and its return.
InfoReturn(t) ==
  /\ Running /\ calls[t].pc = "info_read_raw"
  /\ calls' = At(t, "idle", <<>>, <<>>)
  /\ last' = Returned("get_content_info", NoArgs,
                Ok([has_raw |-> calls[t].out[1],
                    has_formatted |-> get_content_info.val.has_formatted,
                    raw_length |-> calls[t].out[2],
                    formatted_length |->
                      get_content_info.val.formatted_length]))
  /\ UNCHANGED <<raw_content, formatted_content, poisoned, build, proc,
                 written_stale, xmlVars, fnVars>>

\* Line 501
ChunkLock(t, content_type, start, chunk_size) ==
  LockOrFail(t, "get_content_chunk",
             [content_type |-> content_type, start |-> start,
              chunk_size |-> chunk_size],
             "chunk_locked", <<content_type, start, chunk_size>>)

\* Lines 503-535
ChunkReturn(t) ==
  /\ Running /\ calls[t].pc = "chunk_locked"
  /\ LET args == calls[t].content
         res == get_content_chunk(args[1], args[2], args[3])
     IN  /\ last' = Returned("get_content_chunk",
                             [content_type |-> args[1], start |-> args[2],
                              chunk_size |-> args[3]], res)
         /\ IF res.outcome = "panic" THEN PanicEffect
            ELSE UNCHANGED <<poisoned, proc>>
  /\ calls' = At(t, "idle", <<>>, <<>>)
  /\ UNCHANGED <<raw_content, formatted_content, build, written_stale,
                 xmlVars, fnVars>>

\* What the callers of the lock specification pass.
LockStoreTexts == {TextXml, TextXmlAccent}
LockChunkStarts == {0, 2}
LockChunkSizes == {1, 4}

LockInit ==
  /\ StoreStart
  /\ build \in Builds
  /\ xmlText = <<>> /\ xs = XmlIdle
  /\ fnCall = FnIdle

LockNext ==
  \E t \in Callers :
    \/ \E content \in LockStoreTexts : StoreLock(t, content)
    \/ StoreWriteRaw(t)
    \/ StoreWriteFormatted(t)
    \/ ClearLock(t)
    \/ ClearWriteRaw(t)
    \/ ClearWriteFormatted(t)
    \/ InfoLock(t)
    \/ InfoReadRaw(t)
    \/ InfoReturn(t)
    \/ \E ct \in {"raw", "formatted"}, start \in LockChunkStarts,
          size \in LockChunkSizes : ChunkLock(t, ct, start, size)
    \/ ChunkReturn(t)
    \/ LockFree /\ FormatTextBegin(t, <<>>, "xml")
    \/ LockFree /\ FormatTextStore(t)

SpecLock == LockInit /\ [][LockNext]_vars

(***************************************************************************)
(* The component specification: the format components are called one       *)
(* after the other on the inputs below, and fnCall holds the call that     *)
(* returned last.  What each component returns on each input is computed   *)
(* once, in a table.                                                       *)
(***************************************************************************)
\* Segments of a token, by what decode_jwt_part makes of them:
\* {}  []  {"a":1}
JwtSegsJson ==
  {<<"e", "3", "0">>, <<"W", "1", "0">>,
   <<"e", "y", "J", "h", "I", "j", "o", "x", "f", "Q">>}
\* not base64 (a length of 1 modulo 4; a symbol outside the alphabet)
JwtSegsNotBase64 == {<<"e">>, <<"e", "3", "!">>}
\* base64 of the byte FF, in the URL-safe alphabet: not UTF-8
JwtSegsNotUtf8 == {<<"_", "w">>}
\* base64 of '{', and the empty segment, which decodes to no text: not JSON
JwtSegsNotJson == {<<"e", "w">>, <<>>}

JwtSegs ==
  JwtSegsJson \cup JwtSegsNotBase64 \cup JwtSegsNotUtf8 \cup JwtSegsNotJson

\* Third segments: empty, base64url text, text that is no base64 at all.
JwtSignatures ==
  {<<>>, <<"s">>, <<"c", "2", "l", "n">>, <<"-", "_">>, <<"!", "\"">>}

JwtToken(h, p, s) == h \o <<".">> \o p \o <<".">> \o s

\* Tokens of three segments, the same with white space around them, and
\* texts that are no token: empty, blank, of two and of four segments.
JwtTokens ==
  {JwtToken(h, p, s) : h \in JwtSegs, p \in JwtSegs, s \in JwtSignatures}
    \cup {<<" ">> \o JwtToken(h, h, s) \o <<"\n">> :
            h \in JwtSegs, s \in JwtSignatures}
    \cup {<<>>, <<" ", "\n">>, <<"e", "3", "0">>,
          <<"e", "3", "0", ".", "e", "3", "0">>,
          <<"e", "3", "0", ".", "e", "3", "0", ".", "s", ".", "t">>,
          <<".", ".", ".">>, <<"e", ".", "e">>}

JwtResults == [token \in JwtTokens |-> parse_jwt(token)]

\* Characters of 1, 2, 3 and 4 bytes, a space among them; '~' and '?' give
\* the symbols '+' and '/'.
B64Alphabet == {"a", " ", "~", "?", EAcute, CheckMark, Folder}

B64Texts == Str(B64Alphabet, MaxB64Len)

\* encode_base64 on each text, and decode_base64 on what it returned.
B64RoundTrips ==
  [s \in B64Texts |->
     LET encoded == encode_base64(s)
     IN  [encoded |-> encoded, decoded |-> decode_base64(encoded.val)]]

\* JSON values as serde_json holds them: scalars, empty containers, and
\* containers of one or two children, the deeper child first or last.
JsonLeaves == {JNull, JStr(<<"s">>)}

RECURSIVE JsonTreesTo(_)
JsonTreesTo(d) ==
  LET flat == JsonLeaves \cup {JBool(TRUE), JNum(<<"1">>), JArr(<<>>), JObj(<<>>)}
  IN  IF d = 0 THEN flat
      ELSE LET below == JsonTreesTo(d - 1)
           IN  flat
                 \cup {JArr(<<x>>) : x \in below}
                 \cup {JArr(<<x, leaf>>) : x \in below, leaf \in JsonLeaves}
                 \cup {JObj(<<<<<<"a">>, x>>>>) : x \in below}
                 \cup {JObj(<<<<<<"a">>, leaf>>, <<<<"b">>, x>>>>) :
                         x \in below, leaf \in JsonLeaves}

JsonTrees == JsonTreesTo(MaxJsonDepth)

JsonStatsOf == [value \in JsonTrees |-> calculate_json_stats(value)]

\* Texts given to format_json: well formed, or malformed at a character or
\* at the end, on the first line or a later one.
\* {"a":}
JsonTextNoValue ==
  <<"{", "\"", "a", "\"", ":", "}">>
\* {"a":
JsonTextCut ==
  <<"{", "\"", "a", "\"", ":">>
\* {\n"a":}\n
JsonTextSecondLine ==
  <<"{", "\n", "\"", "a", "\"", ":", "}", "\n">>
\* {\n
JsonTextOpenLine ==
  <<"{", "\n">>
\* "a\nb"
JsonTextBrokenString ==
  <<"\"", "a", "\n", "b", "\"">>
\* [1,]
JsonTextTrailingComma ==
  <<"[", "1", ",", "]">>
\* [1,\r\n x]
JsonTextCrLf ==
  <<"[", "1", ",", "\r", "\n", " ", "x", "]">>
\* {"a":1}
JsonTextGood ==
  <<"{", "\"", "a", "\"", ":", "1", "}">>
\* 1 2
JsonTextTwoValues ==
  <<"1", " ", "2">>

JsonTexts ==
  {<<>>, <<EAcute>>, JsonTextNoValue, JsonTextCut, JsonTextSecondLine, JsonTextOpenLine,
   JsonTextBrokenString, JsonTextTrailingComma, JsonTextCrLf, JsonTextGood, JsonTextTwoValues}

FormatJsonOf == [text \in JsonTexts |-> format_json(text)]

\* origin: the argument of the call whose result this call was given.
FnReturned(fn, arg, res) ==
  [fn |-> fn, arg |-> arg, res |-> res, origin |-> NoneV]

\* The caller has taken the last result and can call again.
FnReady == fnCall.fn = "none"

FnTaken ==
  /\ fnCall.fn # "none"
  /\ fnCall' = FnIdle
  /\ UNCHANGED <<xmlVars, storeVars>>

\* Lines 185-247, called on a token.
ParseJwt ==
  /\ FnReady
  /\ \E token \in JwtTokens :
       fnCall' = FnReturned("parse_jwt", token, JwtResults[token])
  /\ UNCHANGED <<xmlVars, storeVars>>

\* Lines 278-283, called on a text.
EncodeBase64 ==
  /\ FnReady
  /\ \E s \in B64Texts :
       fnCall' = FnReturned("encode_base64", s, B64RoundTrips[s].encoded)
  /\ UNCHANGED <<xmlVars, storeVars>>

\* Lines 285-297, called on what encode_base64 has just returned.
DecodeBase64 ==
  /\ fnCall.fn = "encode_base64" /\ fnCall.res.outcome = "ok"
  /\ fnCall' = [fn |-> "decode_base64", arg |-> fnCall.res.val,
                res |-> B64RoundTrips[fnCall.arg].decoded,
                origin |-> Some(fnCall.arg)]
  /\ UNCHANGED <<xmlVars, storeVars>>

\* Lines 441-452, called on a parsed value.
CalculateJsonStats ==
  /\ FnReady
  /\ \E value \in JsonTrees :
       fnCall' = FnReturned("calculate_json_stats", value, JsonStatsOf[value])
  /\ UNCHANGED <<xmlVars, storeVars>>

\* Lines 45-82, called on a text.
FormatJson ==
  /\ FnReady
  /\ \E text \in JsonTexts :
       fnCall' = FnReturned("format_json", text, FormatJsonOf[text])
  /\ UNCHANGED <<xmlVars, storeVars>>

\* n times the character c.
Run(c, n) == [k \in 1..n |-> c]

\* JSON string values given to generate_json_summary: runs of an ASCII
\* character, of a character of two bytes, of one of three bytes, and runs
\* of ASCII characters with two characters of two bytes before or after.
PreviewStrings ==
  UNION {{Run("a", n), Run(EAcute, n), Run(CheckMark, n),
          Run("a", n) \o <<EAcute, EAcute>>,
          <<EAcute, EAcute>> \o Run("a", n)} : n \in 0..MaxPreviewLen}

SummaryOfString ==
  [str \in PreviewStrings |-> generate_json_summary(JStr(str), LitRoot, 0)]

\* Line 313: generate_json_summary(&parsed_value, "root", 0), called on the
\* value of a JSON text that is one string; res holds every output the call
\* can have.
GenerateJsonSummary ==
  /\ FnReady
  /\ \E str \in PreviewStrings :
       fnCall' = FnReturned("generate_json_summary", JStr(str),
                            SummaryOfString[str])
  /\ UNCHANGED <<xmlVars, storeVars>>

FnInit ==
  /\ xmlText = <<>> /\ xs = XmlIdle
  /\ fnCall = FnIdle
  /\ StoreStart
  /\ build = [overflow_checks |-> TRUE, panic_unwind |-> TRUE]

FnNext ==
  \/ ParseJwt
  \/ EncodeBase64
  \/ DecodeBase64
  \/ CalculateJsonStats
  \/ FormatJson
  \/ GenerateJsonSummary
  \/ FnTaken

SpecFn == FnInit /\ [][FnNext]_vars

(***************************************************************************)
(* The pagination specification: content is stored, then a caller reads a  *)
(* slot chunk by chunk: it calls get_content_chunk with start 0, and while *)
(* the response has has_more it calls again with the same chunk_size and   *)
(* start = the next_start of the response.  calls[t].content holds the     *)
(* arguments of its next call, calls[t].out the chunks received so far,    *)
(* joined.  The store does not change while a retrieval is under way.      *)
(***************************************************************************)
PageTexts == {<<>>, TextJson, TextTen}

PageSizes == (0..MaxPageSize) \cup {UsizeMax}

\* One get_content_chunk call of the retrieval (lines 495-535), and what the
\* caller does with the response.
PageCall(t, content_type, start, chunk_size, received) ==
  LET res == get_content_chunk(content_type, start, chunk_size)
  IN  /\ last' = Returned("get_content_chunk",
                          [content_type |-> content_type, start |-> start,
                           chunk_size |-> chunk_size], res)
      /\ IF res.outcome = "panic" THEN PanicEffect
         ELSE UNCHANGED <<poisoned, proc>>
      /\ calls' =
           IF res.outcome # "ok" THEN At(t, "idle", <<>>, <<>>)
           ELSE IF res.val.has_more
           THEN At(t, "paging",
                   <<content_type, res.val.next_start, chunk_size>>,
                   received \o res.val.chunk)
           ELSE At(t, "paged", <<content_type, start, chunk_size>>,
                   received \o res.val.chunk)
      /\ UNCHANGED <<raw_content, formatted_content, build, written_stale,
                     xmlVars, fnVars>>

PageBegin(t, content_type, chunk_size) ==
  /\ Running /\ Idle(t)
  /\ PageCall(t, content_type, 0, chunk_size, <<>>)

PageNext(t) ==
  /\ Running /\ calls[t].pc = "paging"
  /\ PageCall(t, calls[t].content[1], calls[t].content[2],
              calls[t].content[3], calls[t].out)

\* The caller has the whole content and is free to issue commands again.
PageEnd(t) ==
  /\ Running /\ calls[t].pc = "paged"
  /\ calls' = At(t, "idle", <<>>, <<>>)
  /\ UNCHANGED <<raw_content, formatted_content, poisoned, build, proc, last,
                 written_stale, xmlVars, fnVars>>

PageInit ==
  /\ StoreStart
  /\ build \in Builds
  /\ xmlText = <<>> /\ xs = XmlIdle
  /\ fnCall = FnIdle

PageSteps ==
  \/ \E content \in PageTexts : StoreRawContent(1, content)
  \/ \E chunk_size \in PageSizes : PageBegin(1, "raw", chunk_size)
  \/ PageNext(1)
  \/ PageEnd(1)

\* The caller does make its next call while a retrieval is under way.
SpecPage == PageInit /\ [][PageSteps]_vars /\ WF_vars(PageNext(1))

(***************************************************************************)
(* What the last returned call says, for the claims about the store.       *)
(***************************************************************************)
NonCodec == {"json", "xml", "jwt", "json-summary"}

\* The last call to return set raw_content.
SetRawReturned ==
  /\ last.outcome = "ok"
  /\ \/ last.op = "store_raw_content"
     \/ last.op = "read_large_file_streaming" /\ last.val.use_streaming

\* The last call to return is a successful format_text of a stored format.
FormatStoredReturned ==
  /\ last.op = "format_text" /\ last.outcome = "ok"
  /\ last.args.format_type \in NonCodec

\* The slot a content type names.
Slot(content_type) ==
  IF content_type = "raw" THEN raw_content ELSE formatted_content

\* The outcome of the last call, as the format components give outcomes.
LastResult == [outcome |-> last.outcome, err |-> last.err, val |-> last.val]

C2_FormattedIsFresh == IsSome(formatted_content) => ~written_stale

(***************************************************************************)
(* C3.  get_content_chunk on a slot that holds content of byte length L    *)
(* returns, for every start and chunk_size: the empty chunk, has_more      *)
(* false, total_length L and next_start L when start >= L; otherwise, with *)
(* end = min(start + chunk_size, L), the bytes [start, end) of the         *)
(* content, has_more = (end < L), total_length L and next_start end.       *)
(***************************************************************************)
C3_ChunkContract ==
  (/\ last.op = "get_content_chunk"
   /\ last.args.content_type \in {"raw", "formatted"}
   /\ IsSome(Slot(last.args.content_type)))
  => LET content == Unwrap(Slot(last.args.content_type))
         L == ByteLen(content)
         start == last.args.start
         end == Min({start + last.args.chunk_size, L})
     IN  /\ last.outcome = "ok"
         /\ last.val.total_length = L
         /\ IF start >= L
            THEN /\ last.val.chunk = <<>>
                 /\ ~last.val.has_more
                 /\ last.val.next_start = L
            ELSE /\ AsBytes(last.val.chunk)
                      = SubSeq(AsBytes(content), start + 1, end)
                 /\ last.val.has_more = (end < L)
                 /\ last.val.next_start = end

(***************************************************************************)
(* C4.  A get_content_chunk whose start, or whose end                      *)
(* min(start + chunk_size, total_length), falls inside a multi-byte        *)
(* character returns an error; it does not panic, the process keeps        *)
(* running and the lock is not poisoned.                                   *)
(***************************************************************************)
SplitsCharacter(content, start, chunk_size) ==
  /\ start < ByteLen(content)
  /\ \/ ~IsCharBoundary(content, start)
     \/ ~IsCharBoundary(content, Min({start + chunk_size, ByteLen(content)}))

C4_SplitFailsCleanly ==
  (/\ last.op = "get_content_chunk"
   /\ last.args.content_type \in {"raw", "formatted"}
   /\ IsSome(Slot(last.args.content_type))
   /\ SplitsCharacter(Unwrap(Slot(last.args.content_type)), last.args.start,
                      last.args.chunk_size))
  => /\ last.outcome = "err"
     /\ ~poisoned
     /\ proc = "running"

(***************************************************************************)
(* C5.  The effects of format_text on the store: a successful call with    *)
(* format json, xml, jwt or json-summary sets formatted_content to the     *)
(* string it returns and leaves raw_content as it was; every other         *)
(* format_text call (encode or decode, succeeding or failing; any failing  *)
(* call, an unknown format among them) and the first step of a call leave  *)
(* raw_content and formatted_content as they were.                         *)
(***************************************************************************)
C5_FormatTextEffects ==
  [][/\ (last'.op = "format_text") =>
          IF FormatStoredReturned'
          THEN /\ formatted_content' = Some(last'.val)
               /\ raw_content' = raw_content
          ELSE UNCHANGED <<raw_content, formatted_content>>
     /\ (\E t \in Callers : calls[t].pc = "idle" /\ calls'[t].pc = "store")
          => UNCHANGED <<raw_content, formatted_content>>]_vars

\* A format of the stored raw content has returned: its result is the
\* formatted content and the raw content is still there.
C5_Witness ==
  /\ FormatStoredReturned
  /\ last.args.text = <<>>
  /\ formatted_content = Some(last.val)
  /\ IsSome(raw_content)

(***************************************************************************)
(* C6.  The empty-text fallback of format_text: with empty text and        *)
(* raw_content present the call has an outcome of the operation on         *)
(* raw_content; with empty text and raw_content absent json, xml, jwt and  *)
(* json-summary return an error and encode and decode return the empty     *)
(* string; with text that is not empty the outcome is one of the operation *)
(* on that text, whatever raw_content holds.                               *)
(***************************************************************************)
C6_EmptyTextFallback ==
  (last.op = "format_text") =>
    LET format_type == last.args.format_type
    IN  IF last.args.text # <<>>
        THEN \/ LastResult \in Dispatched(format_type, last.args.text)
             \/ LastResult = Err(PoisonMsg)
        ELSE IF IsSome(raw_content)
        THEN LastResult \in Dispatched(format_type, Unwrap(raw_content))
        ELSE /\ format_type \in NonCodec => last.outcome = "err"
             /\ format_type \in {"encode", "decode"} =>
                  (last.outcome = "ok" /\ last.val = <<>>)

(***************************************************************************)
(* C10.  clear_content empties both slots whatever the store held: when it *)
(* has returned, get_content_info reports has_raw = false, has_formatted = *)
(* false, raw_length = 0 and formatted_length = 0, and get_content_chunk   *)
(* fails for "raw" and for "formatted".                                    *)
(***************************************************************************)
C10_ClearEmptiesBoth ==
  (last.op = "clear_content") =>
    /\ raw_content = NoneV /\ formatted_content = NoneV
    /\ get_content_info = Ok([has_raw |-> FALSE, has_formatted |-> FALSE,
                             raw_length |-> 0, formatted_length |-> 0])
    /\ \A content_type \in {"raw", "formatted"} :
         \A start \in ChunkStarts, chunk_size \in ChunkSizes :
           get_content_chunk(content_type, start, chunk_size).outcome = "err"

(***************************************************************************)
(* The token structure of an XML text, read off the text itself: a tag is  *)
(* a '<' up to the first '>' after it, a text run is what lies between     *)
(* tags, trimmed, when that is not empty.                                  *)
(***************************************************************************)
FirstIndex(s, c) ==
  LET S == {k \in 1..Len(s) : s[k] = c} IN IF S = {} THEN 0 ELSE Min(S)

RECURSIVE XmlTokens(_)
XmlTokens(s) ==
  IF s = <<>> THEN <<>>
  ELSE IF Head(s) = "<"
       THEN LET p == FirstIndex(s, ">")
            IN  IF p = 0 THEN <<[kind |-> "unclosed", body |-> s]>>
                ELSE <<[kind |-> "tag", body |-> SubSeq(s, 1, p)]>>
                       \o XmlTokens(SubSeq(s, p + 1, Len(s)))
       ELSE LET p == FirstIndex(s, "<")
                run == IF p = 0 THEN s ELSE SubSeq(s, 1, p - 1)
                rest == IF p = 0 THEN <<>> ELSE SubSeq(s, p, Len(s))
            IN  (IF Trim(run) = <<>> THEN <<>>
                 ELSE <<[kind |-> "text", body |-> Trim(run)]>>)
                  \o XmlTokens(rest)

TokIsTag(t) == t.kind = "tag"
\* The body of a tag includes its '<' and '>'.
TokIsClosing(t) == TokIsTag(t) /\ Len(t.body) > 2 /\ t.body[2] = "/"
TokIsSelfClosing(t) ==
  TokIsTag(t) /\ ~TokIsClosing(t) /\ Len(t.body) > 2
              /\ t.body[Len(t.body) - 1] = "/"
TokIsOpening(t) == TokIsTag(t) /\ ~TokIsClosing(t) /\ ~TokIsSelfClosing(t)

OpeningCount(toks, n) == Cardinality({k \in 1..n : TokIsOpening(toks[k])})
ClosingCount(toks, n) == Cardinality({k \in 1..n : TokIsClosing(toks[k])})

\* The nesting depth in front of token k.
DepthBefore(toks, k) == OpeningCount(toks, k - 1) - ClosingCount(toks, k - 1)

XmlPassedChecks == XmlStart(xmlText).status = "scan"
XmlDone == xs.status \in {"ok", "err"}

(***************************************************************************)
(* C7.  format_xml rejects unbalanced input: an input that passes the      *)
(* initial checks is accepted only if the depth is 0 after the scan, that  *)
(* is, if it has as many opening (neither closing nor self-closing) tags   *)
(* as closing tags; otherwise it fails with the unbalanced-tags error.     *)
(* During the scan the depth is the number of opening minus the number of  *)
(* closing tags read so far.  <a><b></a> is rejected.                      *)
(***************************************************************************)
C7_UnbalancedRejected ==
  LET toks == XmlTokens(Trim(xmlText))
      read == XmlTokens(Slice(xs.chars, 0, xs.i))
      n == Len(toks)
  IN  /\ xs.status = "scan" =>
            xs.depth = OpeningCount(read, Len(read)) - ClosingCount(read, Len(read))
      /\ (XmlDone /\ XmlPassedChecks) =>
            /\ xs.status = "ok" <=> OpeningCount(toks, n) = ClosingCount(toks, n)
            /\ xs.status = "ok" <=> xs.depth = 0
            /\ xs.status = "err" => xs.err = XmlErrUnbalanced
      /\ (XmlDone /\ xmlText = XmlUnbalanced) =>
            xs.status = "err" /\ xs.err = XmlErrUnbalanced

\* <a><b></a> has been scanned to its end and rejected.
C7_Witness ==
  /\ xmlText = XmlUnbalanced
  /\ xs.status = "err" /\ xs.err = XmlErrUnbalanced
  /\ xs.i = Len(xs.chars) /\ xs.depth = 1

(***************************************************************************)
(* C8.  The line-break and indentation rule of format_xml.  A closing tag  *)
(* right after a text run is appended with no newline and no indentation;  *)
(* any other closing tag goes on a new line indented by 2 * max(depth, 0)  *)
(* spaces with the depth after the decrement; an opening or self-closing   *)
(* tag goes on a new line (no newline while the output is empty) indented  *)
(* by 2 * max(depth, 0) spaces with the depth before the increment, and    *)
(* only an opening tag that is not self-closing increments the depth.      *)
(* <a><b>text</b></a> becomes the lines '<a>', '  <b>text</b>', '</a>'.    *)
(***************************************************************************)
XmlPiece(toks, k) ==
  LET t == toks[k]
      d == DepthBefore(toks, k)
  IN  IF t.kind = "text" THEN t.body
      ELSE IF TokIsClosing(t)
           THEN IF k > 1 /\ toks[k - 1].kind = "text" THEN t.body
                ELSE <<"\n">> \o Indent(Max(d - 1, 0)) \o t.body
           ELSE (IF k = 1 THEN <<>> ELSE <<"\n">>) \o Indent(Max(d, 0)) \o t.body

RECURSIVE XmlLayout(_, _)
XmlLayout(toks, n) ==
  IF n = 0 THEN <<>> ELSE XmlLayout(toks, n - 1) \o XmlPiece(toks, n)

XmlNestedFormatted ==
  <<"<", "a", ">", "\n",
    " ", " ", "<", "b", ">", "t", "e", "x", "t", "<", "/", "b", ">", "\n",
    "<", "/", "a", ">">>

C8_LineBreakRule ==
  LET read == XmlTokens(Slice(xs.chars, 0, xs.i))
  IN  /\ (xs.status = "scan" \/ (XmlDone /\ XmlPassedChecks)) =>
            /\ xs.formatted = XmlLayout(read, Len(read))
            /\ xs.depth = DepthBefore(read, Len(read) + 1)
      /\ (XmlDone /\ xmlText = XmlNested) =>
            xs.status = "ok" /\ xs.formatted = XmlNestedFormatted

\* <a><b>text</b></a> has been formatted: </b> closed inline, </a> on its own line.
C8_Witness ==
  /\ xmlText = XmlNested
  /\ xs.status = "ok"
  /\ xs.formatted = XmlNestedFormatted

(***************************************************************************)
(* C9.  XML re-format round trip: when format_xml succeeds on x with       *)
(* output y, it succeeds on y too, and its output on y has the same        *)
(* sequence of tags and trimmed non-empty text runs as y and as x.         *)
(***************************************************************************)
C9_RoundTrip ==
  xs.status = "ok" =>
    LET y == xs.formatted
        again == format_xml(y)
    IN  /\ again.status = "ok"
        /\ XmlTokens(again.formatted) = XmlTokens(y)
        /\ XmlTokens(y) = XmlTokens(xmlText)

\* An input with text and nested tags whose output differs from it was
\* formatted, and its output formatted again.
C9_Witness ==
  /\ xs.status = "ok"
  /\ xs.formatted # Trim(xmlText)
  /\ \E k \in 1..Len(XmlTokens(xmlText)) : XmlTokens(xmlText)[k].kind = "text"
  /\ format_xml(xs.formatted).status = "ok"

(***************************************************************************)
(* C11.  Store updates are atomic to concurrent observers: no step in      *)
(* which get_content_info or get_content_chunk reads the store is taken    *)
(* while a store_raw_content or clear_content has written raw_content and  *)
(* not yet formatted_content, and the report get_content_info returns is   *)
(* the report of the store as it stands at that return: every observation  *)
(* sees the store entirely before or entirely after each update.           *)
(***************************************************************************)
\* An update has written raw_content and formatted_content is still the old.
Torn == \E u \in Callers : calls[u].pc \in {"store_wrote_raw", "clear_wrote_raw"}

\* Caller t reads the store in this step.
ObserverReads(t) ==
  /\ calls[t].pc \in {"info_locked", "info_read_raw", "chunk_locked"}
  /\ calls'[t].pc # calls[t].pc

C11_AtomicObservers ==
  [][\A t \in Callers :
       ObserverReads(t) =>
         /\ ~Torn
         /\ calls[t].pc = "info_read_raw" =>
              last'.val = get_content_info.val]_vars

\* The intermediate state exists (raw_content new, formatted_content old and
\* present) right after an observer reported a formatted content.
C11_Witness ==
  /\ \E u \in Callers :
       /\ calls[u].pc = "store_wrote_raw"
       /\ raw_content = Some(calls[u].content)
  /\ IsSome(formatted_content)
  /\ last.op = "get_content_info" /\ last.outcome = "ok"
  /\ last.val.has_formatted

(***************************************************************************)
(* C12.  parse_jwt never validates or decodes the signature: a token and   *)
(* any other token with the same first and second segments either both     *)
(* fail with the same error or both succeed with the same header and       *)
(* payload; and on success the third segment stands as it is after         *)
(* "Signature (base64): " in the signature member and as the signature     *)
(* member of token_parts.  The segments are those of the trimmed token.    *)
(***************************************************************************)
Segments(token) == Split(Trim(token), ".")

\* The member of a JSON object under a key.
Member(obj, key) ==
  LET k == CHOOSE k \in 1..Len(obj.members) : obj.members[k][1] = key
  IN  obj.members[k][2]

\* The JSON value a successful parse_jwt printed.
JwtOutput(res) == JsonFromStr(res.val).val

SameButSignature(a, b) ==
  /\ Len(Segments(a)) = 3 /\ Len(Segments(b)) = 3
  /\ Segments(a)[1] = Segments(b)[1]
  /\ Segments(a)[2] = Segments(b)[2]

JwtCalled == fnCall.fn = "parse_jwt"

C12_SignatureIgnored ==
  JwtCalled =>
    /\ \A other \in JwtTokens :
         SameButSignature(fnCall.arg, other) =>
           LET mine == fnCall.res
               theirs == JwtResults[other]
           IN  IF mine.outcome = "ok"
               THEN /\ theirs.outcome = "ok"
                    /\ Member(JwtOutput(mine), KeyHeader)
                         = Member(JwtOutput(theirs), KeyHeader)
                    /\ Member(JwtOutput(mine), KeyPayload)
                         = Member(JwtOutput(theirs), KeyPayload)
               ELSE /\ theirs.outcome = mine.outcome
                    /\ theirs.err = mine.err
                    /\ theirs.val = mine.val
    /\ fnCall.res.outcome = "ok" =>
         /\ Member(JwtOutput(fnCall.res), KeySignature)
              = JStr(SigNote \o Segments(fnCall.arg)[3])
         /\ Member(Member(JwtOutput(fnCall.res), KeyTokenParts), KeySignature)
              = JStr(Segments(fnCall.arg)[3])

\* A token was decoded whose third segment is no base64, and another token
\* with the same first two segments and a different third was decoded too.
C12_Witness ==
  /\ JwtCalled /\ fnCall.res.outcome = "ok"
  /\ Segments(fnCall.arg)[3] = <<"!", "\"">>
  /\ Member(JwtOutput(fnCall.res), KeyHeader) = JObj(<<<<<<"a">>, JNum(<<"1">>)>>>>)
  /\ \E other \in JwtTokens :
       /\ SameButSignature(fnCall.arg, other)
       /\ Segments(other)[3] # Segments(fnCall.arg)[3]
       /\ JwtResults[other].outcome = "ok"

(***************************************************************************)
(* C13.  parse_jwt error staging: a text that is empty once trimmed fails  *)
(* as an empty token; a text that does not split on '.' into exactly 3     *)
(* segments fails on its format, whatever its segments hold; otherwise the *)
(* header is decoded first: a header that fails at its base64, UTF-8 or    *)
(* JSON step gives a header error naming that step whatever the payload    *)
(* is, a payload that fails gives a payload error only if the header       *)
(* decodes, and the call succeeds exactly when both segments decode.       *)
(***************************************************************************)
\* The step at which a segment of JwtSegs fails, "" if it decodes.
SegFailure(seg) ==
  IF seg \in JwtSegsNotBase64 THEN "Invalid base64 encoding"
  ELSE IF seg \in JwtSegsNotUtf8 THEN "Invalid UTF-8 in JWT part"
  ELSE IF seg \in JwtSegsNotJson THEN "Invalid JSON in JWT part"
  ELSE ""

FailsAs(res, msg) == res.outcome = "err" /\ res.err = msg

FailsAt(res, msg, cause) == FailsAs(res, msg) /\ res.val.cause = cause

C13_ErrorStaging ==
  JwtCalled =>
    LET token == Trim(fnCall.arg)
        parts == Split(token, ".")
        res == fnCall.res
    IN  IF token = <<>> THEN FailsAs(res, "Empty JWT token")
        ELSE IF Len(parts) # 3
        THEN FailsAs(res,
               "Invalid JWT format. Expected 3 parts separated by dots.")
        ELSE IF SegFailure(parts[1]) # ""
        THEN FailsAt(res, "Failed to decode JWT header", SegFailure(parts[1]))
        ELSE IF SegFailure(parts[2]) # ""
        THEN FailsAt(res, "Failed to decode JWT payload",
                     SegFailure(parts[2]))
        ELSE res.outcome = "ok"

\* A header that is no UTF-8 before a payload that is no base64: the error
\* is the header's.
C13_Witness ==
  /\ JwtCalled
  /\ Len(Segments(fnCall.arg)) = 3
  /\ Segments(fnCall.arg)[1] \in JwtSegsNotUtf8
  /\ Segments(fnCall.arg)[2] \in JwtSegsNotBase64
  /\ FailsAt(fnCall.res, "Failed to decode JWT header",
             "Invalid UTF-8 in JWT part")

(***************************************************************************)
(* C14.  Base64 round trip: encode_base64 succeeds on every text, and      *)
(* decode_base64 on what it returned succeeds and returns that text; on    *)
(* the empty text both return the empty text.                              *)
(***************************************************************************)
C14_Base64RoundTrip ==
  /\ fnCall.fn = "encode_base64" =>
        /\ fnCall.res.outcome = "ok"
        /\ fnCall.arg = <<>> => fnCall.res.val = <<>>
  /\ fnCall.fn = "decode_base64" =>
        /\ fnCall.res.outcome = "ok"
        /\ fnCall.res.val = Unwrap(fnCall.origin)

\* A text of three characters and nine bytes came back from its encoding,
\* which has the symbols '+' or '/'.
C14_Witness ==
  /\ fnCall.fn = "decode_base64"
  /\ Len(Unwrap(fnCall.origin)) = 3
  /\ ByteLen(Unwrap(fnCall.origin)) = 9
  /\ Len(fnCall.arg) = 12
  /\ \E k \in 1..12 : fnCall.arg[k] \in {"+", "/"}
  /\ fnCall.res.val = Unwrap(fnCall.origin)

(***************************************************************************)
(* C15.  JSON statistics: calculate_json_stats returns objects = the       *)
(* number of object nodes, arrays = the number of array nodes, primitives  *)
(* = the number of scalar nodes, total_keys = the sum of the key counts of *)
(* the objects, and max_depth = the greatest depth of a node, the root     *)
(* being at depth 0 and a child one deeper than its container; every node  *)
(* is counted once: objects + arrays + primitives = the number of nodes.   *)
(***************************************************************************)
Children(value) ==
  IF value.t = "obj"
  THEN [k \in 1..Len(value.members) |-> value.members[k][2]]
  ELSE IF value.t = "arr" THEN value.items ELSE <<>>

\* The nodes of a tree, each named by the path of child positions to it.
RECURSIVE Paths(_)
Paths(value) ==
  {<<>>} \cup UNION {{<<k>> \o p : p \in Paths(Children(value)[k])} :
                     k \in 1..Len(Children(value))}

RECURSIVE NodeAt(_, _)
NodeAt(value, path) ==
  IF path = <<>> THEN value
  ELSE NodeAt(Children(value)[Head(path)], Tail(path))

NodesOf(value, kinds) ==
  Cardinality({p \in Paths(value) : NodeAt(value, p).t \in kinds})

C15_JsonStats ==
  fnCall.fn = "calculate_json_stats" =>
    LET value == fnCall.arg
        stats == fnCall.res
    IN  /\ stats.objects = NodesOf(value, {"obj"})
        /\ stats.arrays = NodesOf(value, {"arr"})
        /\ stats.primitives = NodesOf(value, {"null", "bool", "num", "str"})
        /\ stats.total_keys =
             Cardinality({p \in Paths(value) :
                            /\ p # <<>>
                            /\ NodeAt(value, SubSeq(p, 1, Len(p) - 1)).t = "obj"})
        /\ \A p \in Paths(value) : Len(p) <= stats.max_depth
        /\ \E p \in Paths(value) : Len(p) = stats.max_depth
        /\ stats.objects + stats.arrays + stats.primitives
             = Cardinality(Paths(value))

\* An object of two keys was counted whose deepest node, three levels
\* down, is under its second key, below a scalar under its first.
C15_Witness ==
  /\ fnCall.fn = "calculate_json_stats"
  /\ fnCall.arg.t = "obj" /\ Len(fnCall.arg.members) = 2
  /\ fnCall.res.max_depth = 3
  /\ fnCall.res.objects >= 2 /\ fnCall.res.arrays >= 1
  /\ fnCall.res.total_keys >= 3
  /\ \E p \in Paths(fnCall.arg) : Len(p) = 3 /\ Head(p) = 2
  /\ fnCall.res.primitives >= 2

(***************************************************************************)
(* C16.  JSON parse diagnostic: when the parse fails on line l (1-based)   *)
(* at 0-based column c, format_json returns an error that names line l and *)
(* column c + 1, then gives the l-th line of the input as it is (the empty *)
(* string if the input has fewer than l lines), then a marker of exactly c *)
(* dashes and a caret, then the parser's message.                          *)
(***************************************************************************)
FormatJsonFailed == fnCall.fn = "format_json" /\ fnCall.res.outcome = "err"

\* The 0-based column of the character at: the bytes of its line before it.
ZeroBasedColumn(s, at) ==
  LET before == UMin(at, Len(s))
      breaks == {k \in 1..before : s[k] = "\n"}
      start == IF breaks = {} THEN 0
               ELSE CHOOSE k \in breaks : \A j \in breaks : j <= k
  IN  ByteLen(SubSeq(s, start + 1, before))

Dashes(n) == [k \in 1..n |-> "-"]

C16_ParseDiagnostic ==
  FormatJsonFailed =>
    LET text == fnCall.arg
        said == fnCall.res.val
        parsed == JsonFromStr(text)
        l == ErrorLine(text, parsed.at)
        c == ZeroBasedColumn(text, parsed.at)
    IN  /\ fnCall.res.err = "Parse error"
        /\ said.line = l
        /\ said.column = c + 1
        /\ said.error_line
             = (IF l <= Len(Lines(text)) THEN Lines(text)[l] ELSE <<>>)
        /\ said.marker = Dashes(c) \o <<"^">>
        /\ said.e = parsed.kind

(***************************************************************************)
(* C17.  get_content_chunk over the whole usize range: for every start and *)
(* chunk_size, those whose sum exceeds the greatest usize included, the    *)
(* call does not panic; start >= total_length gives the empty-chunk        *)
(* response, and start < total_length gives the bytes [start, end) with    *)
(* end = min(start + chunk_size, total_length) taken without wrap-around,  *)
(* so start <= end <= total_length.  Stated for content of one-byte        *)
(* characters, which no offset can split, and a lock that is not poisoned. *)
(***************************************************************************)
ChunkOfAsciiReturned ==
  /\ last.op = "get_content_chunk"
  /\ last.args.content_type \in {"raw", "formatted"}
  /\ IsSome(Slot(last.args.content_type))
  /\ ByteLen(Unwrap(Slot(last.args.content_type)))
       = Len(Unwrap(Slot(last.args.content_type)))
  /\ ~(last.outcome = "err" /\ last.err = PoisonMsg)

C17_WholeUsizeRange ==
  ChunkOfAsciiReturned =>
    LET content == Unwrap(Slot(last.args.content_type))
        total_length == Len(content)
        start == last.args.start
        end == Min({start + last.args.chunk_size, total_length})
    IN  /\ last.outcome = "ok"
        /\ IF start >= total_length
           THEN /\ last.val.chunk = <<>>
                /\ ~last.val.has_more
                /\ last.val.next_start = total_length
           ELSE /\ last.val.chunk = SubSeq(content, start + 1, end)
                /\ last.val.next_start = end
                /\ start <= end /\ end <= total_length

(***************************************************************************)
(* C18.  Paginated retrieval terminates and is lossless: a caller that     *)
(* starts at 0 and calls get_content_chunk again, with the same chunk_size *)
(* and the previous next_start, for as long as has_more is true, comes to  *)
(* a response with has_more false, for every chunk_size; a response with   *)
(* has_more true has next_start greater than the start it answers; and the *)
(* chunks received, joined, are the stored content.                        *)
(***************************************************************************)
Paging == calls[1].pc = "paging"

Paged == calls[1].pc = "paged"

PageProgress ==
  /\ Paging => last.val.next_start > last.args.start
  /\ Paged => calls[1].out = Unwrap(Slot(calls[1].content[1]))

C18_PaginationEnds == [](PageProgress) /\ (Paging ~> Paged)

(***************************************************************************)
(* C19.  Whenever format_xml returns success, the depth was never below 0  *)
(* during the scan: after each tag read, the opening tags so far were at   *)
(* least as many as the closing tags; so an input whose closing tag comes  *)
(* before its opening tag, such as </a><a>, is rejected.                   *)
(***************************************************************************)
C19_DepthNeverNegative ==
  LET toks == XmlTokens(Trim(xmlText))
  IN  /\ xs.status = "ok" =>
            \A k \in 1..Len(toks) : DepthBefore(toks, k + 1) >= 0
      /\ (XmlDone /\ xmlText = XmlCloseFirst) => xs.status = "err"

(***************************************************************************)
(* C20.  format_xml is total and terminating: every iteration of the scan  *)
(* loop (tag, text or whitespace branch) moves the position forward; the   *)
(* indices it uses stay within the character sequence; and every call      *)
(* comes to its return, with the formatted string or one of the errors,    *)
(* also on comments, processing instructions and CDATA sections.           *)
(***************************************************************************)
XmlScanning == xs.status = "scan"

\* An iteration leaves the call in the loop, further on in the same chars.
XmlAdvances ==
  (XmlScanning /\ xs'.status = "scan") =>
    /\ xs'.i > xs.i
    /\ xs'.i <= Len(xs.chars)
    /\ xs'.chars = xs.chars

\* chars[i], chars[tag_end], chars[i + 1..tag_end], chars[j] for j in
\* i..=tag_end and chars[text_start..i] are within chars.
XmlInBounds ==
  (XmlScanning /\ xs.i < Len(xs.chars)) =>
    LET len == Len(xs.chars)
        tag_end == TagEnd(xs.chars, xs.i)
        text_end == TextEnd(xs.chars, xs.i)
    IN  /\ 0 <= xs.i
        /\ xs.chars[xs.i + 1] = "<" =>
             /\ xs.i + 1 <= tag_end
             /\ tag_end <= len
             /\ tag_end < len => xs.chars[tag_end + 1] = ">"
        /\ xs.chars[xs.i + 1] # "<" => (xs.i <= text_end /\ text_end <= len)

XmlReturned ==
  \/ xs.status = "ok"
  \/ xs.status = "err"
       /\ xs.err \in {XmlErrEmpty, XmlErrBounds, XmlErrUnclosed, XmlErrUnbalanced}

C20_XmlTerminates ==
  /\ [][XmlAdvances]_vars
  /\ [](XmlInBounds)
  /\ [](xs.status \in {"idle", "scan"} \/ XmlReturned)
  /\ (XmlScanning ~> XmlReturned)

\* The scan of a comment that holds a '>' has come to its end and returned.
C20_Witness ==
  /\ xmlText = XmlComment
  /\ xs.i = Len(xs.chars)
  /\ XmlReturned

(***************************************************************************)
(* C21: the preview of a string in the JSON summary.                       *)
(***************************************************************************)
\* The preview in a line of the summary of a string: what stands between
\* the first - " and the closing " before the line feed.
PreviewIn(line) ==
  LET opens == {k \in 1..(Len(line) - 2) :
                  SubSeq(line, k, k + 2) = <<"-", " ", "\"">>}
      first == CHOOSE k \in opens : \A j \in opens : k <= j
  IN  SubSeq(line, first + 3, Len(line) - 2)

\* What the preview of a string is to be: the string when it has at most 50
\* characters, else its first 47 characters and "...".
PreviewWanted(str) ==
  IF Len(str) <= PreviewLimit THEN str
  ELSE SubSeq(str, 1, PreviewCut) \o <<".", ".", ".">>

SummaryReturned == fnCall.fn = "generate_json_summary"

\* C21: the summary of a JSON string never panics, whatever the characters
\* of the string; the preview it shows is the whole string when the string
\* has at most 50 characters, the first 47 characters followed by "..."
\* when it has more, and so never more than 50 characters.
C21_PreviewBounded ==
  SummaryReturned =>
    \A p \in fnCall.res :
      /\ ~p.panic
      /\ PreviewIn(p.out) = PreviewWanted(fnCall.arg.s)
      /\ Len(PreviewIn(p.out)) <= PreviewLimit

====
